---- MODULE Spec2Model ----
(***************************************************************************)
(* Intent classification and dispatch pipeline of the ashley-ai assistant. *)
(*                                                                         *)
(* Texts are sequences of symbols: a symbol is a word (in some casing), a  *)
(* whitespace character (" " or "\t") or a terminal punctuation mark.      *)
(* No word of the vocabulary contains another word, so Python's substring  *)
(* test on the joined string coincides with the contiguous-subsequence     *)
(* test on symbols.  Confidences and scores are integers in hundredths.    *)
(*                                                                         *)
(* The spaCy pipeline, the zero-shot classifier, the OpenRouter service,   *)
(* the TTS engine and the other collaborators are external: what they      *)
(* return is an input of the operation that calls them.                    *)
(***************************************************************************)
EXTENDS Integers, Sequences, FiniteSets, TLC

VARIABLES
    inp,                \* arguments of the pure function under check
    out,                \* its results ("pending" field until applied)
    prog,               \* which program runs: "main" (main.py) or "app" (app.py)
    pc,                 \* position of assistant_loop within the current turn
    loop_history,       \* assistant_loop's local conversation_history
    turn,               \* the current turn of assistant_loop (query, intent, ...)
    turns,              \* number of turns assistant_loop has started
    conversation_history, \* app.py's global dict client_id -> list of texts
    tasks,              \* app.py: one record per in-flight request / socket
    running,            \* app.py: the task that holds the event loop, or "none"
    arrived             \* ghost: per session, every utterance in arrival order

pureVars == <<inp, out>>
loopVars == <<prog, pc, loop_history, turn, turns>>
appVars  == <<conversation_history, tasks, running>>
vars == <<inp, out, prog, pc, loop_history, turn, turns,
          conversation_history, tasks, running, arrived>>

----------------------------------------------------------------------------
(* Generic helpers *)

Range(s) == {s[i] : i \in DOMAIN s}

Max(a, b) == IF a >= b THEN a ELSE b

RECURSIVE Flatten(_)
Flatten(ss) == IF ss = <<>> THEN <<>> ELSE Head(ss) \o Flatten(Tail(ss))

\* Python's `pat in text` on symbol sequences
Contains(text, pat) ==
    \E i \in 0..(Len(text) - Len(pat)) :
        \A j \in 1..Len(pat) : text[i + j] = pat[j]

----------------------------------------------------------------------------
(* nlp_processor.py: the intent catalog *)

\* the keys of INTENTS, in dict order
INTENTS ==
    << "greet", "exit", "get_name", "get_age", "get_capabilities",
       "smalltalk_hello", "smalltalk_howareyou", "smalltalk_ok",
       "smalltalk_weather", "thanks", "compliment",
       "search_google", "search_youtube", "search_wikipedia", "general_search",
       "get_time", "get_date", "get_datetime",
       "temperature", "weather", "weather_extended",
       "open_app", "close_app", "app_control",
       "set_alarm", "list_alarms", "cancel_alarm",
       "volume_up", "volume_down", "repeat", "help",
       "question", "confirmation", "negation" >>

IntentNames == Range(INTENTS)

----------------------------------------------------------------------------
(* nlp_processor.py: preprocess_text *)

IsSpace(sym) == sym \in {" ", "\t"}
IsPunct(sym) == sym \in {".", "!", "?"}

\* str.lower(), symbol by symbol
Lower(sym) ==
    CASE sym = "Tell"   -> "tell"
      [] sym = "MORE"   -> "more"
      [] sym = "Open"   -> "open"
      [] sym = "I'm"    -> "i'm"
      [] sym = "PM"     -> "pm"
      [] sym = "Today"  -> "today"
      [] OTHER          -> sym

LowerText(text) == [i \in DOMAIN text |-> Lower(text[i])]

RECURSIVE LStrip(_)
LStrip(text) ==
    IF text # <<>> /\ IsSpace(Head(text)) THEN LStrip(Tail(text)) ELSE text

RECURSIVE RStrip(_)
RStrip(text) ==
    IF text # <<>> /\ IsSpace(text[Len(text)])
    THEN RStrip(SubSeq(text, 1, Len(text) - 1)) ELSE text

Strip_mut(text) == text

\* str.strip()
Strip(text) == RStrip(LStrip(text))

\* re.sub(r'\s+', ' ', text)
RECURSIVE CollapseSpaces(_)
CollapseSpaces(text) ==
    IF text = <<>> THEN <<>>
    ELSE IF IsSpace(Head(text))
         THEN <<" ">> \o CollapseSpaces(LStrip(text))
         ELSE <<Head(text)>> \o CollapseSpaces(Tail(text))

\* re.sub(r'[.!?]+$', '', text)
RECURSIVE StripEndPunct(_)
StripEndPunct(text) ==
    IF text # <<>> /\ IsPunct(text[Len(text)])
    THEN StripEndPunct(SubSeq(text, 1, Len(text) - 1)) ELSE text

\* the contractions table, applied by str.replace
contractions(sym) ==
    CASE sym = "i'm"       -> <<"i", " ", "am">>
      [] sym = "you're"    -> <<"you", " ", "are">>
      [] sym = "he's"      -> <<"he", " ", "is">>
      [] sym = "she's"     -> <<"she", " ", "is">>
      [] sym = "it's"      -> <<"it", " ", "is">>
      [] sym = "we're"     -> <<"we", " ", "are">>
      [] sym = "they're"   -> <<"they", " ", "are">>
      [] sym = "don't"     -> <<"do", " ", "not">>
      [] sym = "doesn't"   -> <<"does", " ", "not">>
      [] sym = "didn't"    -> <<"did", " ", "not">>
      [] sym = "won't"     -> <<"will", " ", "not">>
      [] sym = "can't"     -> <<"cannot">>
      [] sym = "couldn't"  -> <<"could", " ", "not">>
      [] sym = "shouldn't" -> <<"should", " ", "not">>
      [] sym = "wouldn't"  -> <<"would", " ", "not">>
      [] sym = "haven't"   -> <<"have", " ", "not">>
      [] sym = "hasn't"    -> <<"has", " ", "not">>
      [] sym = "hadn't"    -> <<"had", " ", "not">>
      [] sym = "isn't"     -> <<"is", " ", "not">>
      [] sym = "aren't"    -> <<"are", " ", "not">>
      [] sym = "wasn't"    -> <<"was", " ", "not">>
      [] sym = "weren't"   -> <<"were", " ", "not">>
      [] OTHER             -> <<sym>>

ExpandContractions(text) == Flatten([i \in DOMAIN text |-> contractions(text[i])])

preprocess_text(text) ==
    IF text = <<>> THEN <<>>
    ELSE ExpandContractions(StripEndPunct(CollapseSpaces(Strip(LowerText(text)))))

----------------------------------------------------------------------------
(* nlp_processor.py: extract_entities *)

NoEntities == [k \in {"location", "time", "app_name", "search_query", "alarm_time"} |-> <<>>]

\* dict.get(key) with a falsy default
Get(d, k) == IF k \in DOMAIN d THEN d[k] ELSE <<>>

search_keywords == << <<"search">>, <<"find">>, <<"look", " ", "up">>,
                      <<"google">>, <<"youtube">>, <<"wikipedia">> >>

\* whether pat occurs in text at position i
OccursAt(text, pat, i) ==
    /\ i + Len(pat) - 1 <= Len(text)
    /\ \A j \in 1..Len(pat) : text[i + j - 1] = pat[j]

\* whether keyword\s+(?:for\s+)?(.+) matches at position i: the keyword,
\* a whitespace and at least one more symbol
MatchesAt(text, keyword, i) ==
    /\ OccursAt(text, keyword, i)
    /\ i + Len(keyword) + 1 <= Len(text)
    /\ IsSpace(text[i + Len(keyword)])

\* the position of the leftmost match, 0 if none
FirstAt(text, keyword) ==
    IF \E i \in 1..Len(text) : MatchesAt(text, keyword, i)
    THEN CHOOSE i \in 1..Len(text) :
            MatchesAt(text, keyword, i) /\ \A k \in 1..(i - 1) : ~MatchesAt(text, keyword, k)
    ELSE 0

\* (?:for\s+)?(.+) on the non-empty text that follows the keyword's
\* whitespace, stripped: "for" and its whitespace are skipped when something
\* follows them; "for" and two or more whitespaces at the end leave a
\* whitespace as the group, which strips to the empty string
Captured(body) ==
    IF body[1] = "for" /\ Len(body) >= 2 /\ IsSpace(body[2])
    THEN IF LStrip(Tail(body)) # <<>> THEN << Strip(LStrip(Tail(body))) >>
         ELSE IF Len(body) >= 3 THEN << <<>> >>
         ELSE << Strip(body) >>
    ELSE << Strip(body) >>

\* \s+ and the rest after the keyword; when only whitespace follows, \s+
\* gives one back and the group strips to the empty string
AfterKeyword(rest) ==
    IF LStrip(rest) = <<>> THEN << <<>> >> ELSE Captured(LStrip(rest))

KeywordAt(text, keyword, i) ==
    IF i = 0 THEN <<>> ELSE AfterKeyword(SubSeq(text, i + Len(keyword), Len(text)))

\* re.search(rf"{keyword}\s+(?:for\s+)?(.+)", text): the captured group,
\* stripped, as a one-element list; the empty list when there is no match
SearchQueryAfter(text, keyword) == KeywordAt(text, keyword, FirstAt(text, keyword))

\* the symbols the alarm patterns match: a clock time \d{1,2}:\d{2}, a
\* two-digit number, and am / pm.  No other symbol of the vocabulary ends in
\* "at" or a digit or starts with "am" or "pm".
IsClock(sym) == sym \in {"10:30"}
IsHour(sym)  == sym \in {"10"}
IsAmPm(sym)  == sym \in {"am", "pm"}

\* the last two digits of a symbol that ends in digits
DigitTail(sym) == IF sym = "10:30" THEN "30" ELSE sym

\* the number of whitespace symbols text starts with
RECURSIVE SpaceRun(_)
SpaceRun(text) ==
    IF text # <<>> /\ IsSpace(Head(text)) THEN 1 + SpaceRun(Tail(text)) ELSE 0

\* at\s+(\d{1,2}:\d{2}) at the head of text, after n whitespaces
AtClockHead(text, n) ==
    text[1] = "at" /\ n >= 1 /\ Len(text) >= n + 2 /\ IsClock(text[n + 2])

\* (\d{1,2})\s*(am|pm) at the head of text, after n whitespaces
AmPmHead(text, n) ==
    (IsClock(text[1]) \/ IsHour(text[1])) /\ Len(text) >= n + 2 /\ IsAmPm(text[n + 2])

\* alarm_patterns; the fourth, (\d{1,2})\s*(a\.m\.|p\.m\.), matches no text
\* of the vocabulary
alarm_patterns == <<"at_clock", "clock", "ampm">>

Suffix(text, i) == SubSeq(text, i, Len(text))

\* re.findall of alarm_patterns[p] from position i on: the matches from
\* left to right, not overlapping, each with the position it starts at; a
\* tuple of groups is joined with " "
RECURSIVE AlarmHits(_, _, _)
AlarmHits(text, p, i) ==
    IF i > Len(text) THEN <<>>
    ELSE CASE alarm_patterns[p] = "at_clock" ->
                IF AtClockHead(Suffix(text, i), SpaceRun(Suffix(text, i + 1)))
                THEN << [pattern |-> p, at |-> i,
                         value |-> <<text[i + SpaceRun(Suffix(text, i + 1)) + 1]>>] >>
                        \o AlarmHits(text, p, i + SpaceRun(Suffix(text, i + 1)) + 2)
                ELSE AlarmHits(text, p, i + 1)
           [] alarm_patterns[p] = "clock" ->
                IF IsClock(text[i])
                THEN << [pattern |-> p, at |-> i, value |-> <<text[i]>>] >>
                        \o AlarmHits(text, p, i + 1)
                ELSE AlarmHits(text, p, i + 1)
           [] OTHER ->
                IF AmPmHead(Suffix(text, i), SpaceRun(Suffix(text, i + 1)))
                THEN << [pattern |-> p, at |-> i,
                         value |-> <<DigitTail(text[i]), " ",
                                     text[i + SpaceRun(Suffix(text, i + 1)) + 1]>>] >>
                        \o AlarmHits(text, p, i + SpaceRun(Suffix(text, i + 1)) + 2)
                ELSE AlarmHits(text, p, i + 1)

\* lines 346-352: the patterns in turn
AllAlarmHits(text) == Flatten([p \in DOMAIN alarm_patterns |-> AlarmHits(text, p, 1)])

\* the candidate of search_keywords[k]: at most one, the leftmost match
KeywordHit(text, k, captured) ==
    IF captured = <<>> THEN <<>>
    ELSE << [keyword |-> k, at |-> FirstAt(text, search_keywords[k]),
             value |-> captured[1]] >>

\* lines 330-336: the keywords in turn
SearchHits(text) ==
    Flatten([k \in DOMAIN search_keywords |->
                KeywordHit(text, k, SearchQueryAfter(text, search_keywords[k]))])

Values(hits) == [i \in DOMAIN hits |-> hits[i].value]

\* ner: what spaCy's doc.ents yield for the text, already sorted by label
extract_entities(text, nlp, ner) ==
    IF ~nlp THEN NoEntities
    ELSE [k \in DOMAIN NoEntities |->
            CASE k = "search_query" -> Values(SearchHits(text))
              [] k = "alarm_time"   -> Values(AllAlarmHits(text))
              [] OTHER              -> ner[k]]

----------------------------------------------------------------------------
(* nlp_processor.py: the classifiers *)

\* lexical floor: intent_scores[best_intent] > 0.3
Threshold == 30

\* max(intent_scores, key=intent_scores.get): a scan in dict order that keeps
\* the first key whose score is maximal
RECURSIVE ArgMax(_, _, _)
ArgMax(intent_scores, i, best) ==
    IF i > Len(INTENTS) THEN best
    ELSE ArgMax(intent_scores, i + 1,
                IF intent_scores[INTENTS[i]] > intent_scores[INTENTS[best]]
                THEN i ELSE best)

BestIntent(intent_scores) == INTENTS[ArgMax(intent_scores, 2, 1)]

AboveThreshold_mut(score) == score >= Threshold

\* if intent_scores[best_intent] > 0.3
AboveThreshold(score) == score > Threshold

\* intent_scores: pattern_score + linguistic_score per intent, as computed
\* from the spaCy doc of the text
get_intent_spacy_simple(text, nlp, intent_scores) ==
    IF ~nlp THEN "unknown"
    ELSE IF preprocess_text(text) = <<>> THEN "unknown"
    ELSE LET best_intent == BestIntent(intent_scores)
         IN  IF AboveThreshold(intent_scores[best_intent])
             THEN best_intent ELSE "unknown"

\* result: the pipeline's top label and its score
get_intent_transformer(text, classifier, result) ==
    IF ~classifier THEN <<"unknown", 0>>
    ELSE IF preprocess_text(text) = <<>> THEN <<"unknown", 0>>
    ELSE <<result.label, result.score>>

get_intent_transformer_simple(text, classifier, result) ==
    IF ~classifier THEN "unknown"
    ELSE IF preprocess_text(text) = <<>> THEN "unknown"
    ELSE IF result.score > 60 THEN result.label ELSE "unknown"

AgreeConfidence_mut(transformer_confidence) == transformer_confidence

AgreeConfidence(transformer_confidence) == Max(80, transformer_confidence)

ConfidentThreshold == 70

VeryConfident_mut(transformer_confidence) == transformer_confidence > 60

\* elif transformer_confidence > 0.7
VeryConfident(transformer_confidence) == transformer_confidence > ConfidentThreshold

\* the final-intent decision of get_intent_hybrid
Combine(spacy_intent, transformer_intent, transformer_confidence) ==
    IF spacy_intent = transformer_intent /\ spacy_intent # "unknown"
    THEN [intent |-> spacy_intent, confidence |-> AgreeConfidence(transformer_confidence)]
    ELSE IF VeryConfident(transformer_confidence)
    THEN [intent |-> transformer_intent, confidence |-> transformer_confidence]
    ELSE IF spacy_intent # "unknown"
    THEN [intent |-> spacy_intent, confidence |-> 60]
    ELSE [intent |-> "unknown", confidence |-> 0]

CombineResult(spacy_intent, tr) == Combine(spacy_intent, tr[1], tr[2])

WithEntities(final, entities) ==
    [intent |-> final.intent, confidence |-> final.confidence, entities |-> entities]

\* lines 451-476, on the preprocessed text
HybridOn(text, ext) ==
    IF text = <<>>
    THEN [intent |-> "unknown", confidence |-> 0, entities |-> <<>>]
    ELSE WithEntities(
            CombineResult(get_intent_spacy_simple(text, ext.nlp, ext.intent_scores),
                          get_intent_transformer(text, ext.classifier, ext.result)),
            extract_entities(text, ext.nlp, ext.ner))

\* ext: what the external models give for the text
\*   nlp, classifier : whether the model is loaded
\*   intent_scores   : the lexical scores,  result : the zero-shot result
\*   ner             : the named entities
get_intent_hybrid(text, ext) == HybridOn(preprocess_text(text), ext)

\* get_intent_with_context; ext is as for get_intent_hybrid, extLast is what
\* the models give for conversation_history[-1].  Trace fields hybrid and
\* last_intent record the two inner calls.
follow_up_patterns ==
    [i \in {"search_google", "weather", "set_alarm", "open_app"} |->
        CASE i = "search_google" ->
                { <<"more", " ", "about">>, <<"tell", " ", "me", " ", "more">>,
                  <<"additional", " ", "info">>, <<"more", " ", "details">> }
          [] i = "weather" ->
                { <<"in", " ", "another", " ", "city">>,
                  <<"different", " ", "location">>, <<"somewhere", " ", "else">> }
          [] i = "set_alarm" ->
                { <<"for", " ", "tomorrow">>, <<"next", " ", "week">>,
                  <<"different", " ", "time">> }
          [] OTHER ->
                { <<"another", " ", "app">>, <<"different", " ", "program">>,
                  <<"something", " ", "else">> }]

TriggerText_mut(text) == text

\* the text the trigger phrases are looked up in: text.lower()
TriggerText(text) == LowerText(text)

\* lines 496-503
FollowUp(text, hybrid, last_intent) ==
    IF /\ last_intent \in DOMAIN follow_up_patterns
       /\ \E pattern \in follow_up_patterns[last_intent] :
             Contains(TriggerText(text), pattern)
    THEN [intent |-> last_intent, confidence |-> 70, entities |-> hybrid.entities,
          hybrid |-> hybrid, last_intent |-> last_intent]
    ELSE [intent |-> hybrid.intent, confidence |-> hybrid.confidence,
          entities |-> hybrid.entities, hybrid |-> hybrid, last_intent |-> last_intent]

\* lines 483-486
ContextOn(text, history, hybrid, extLast) ==
    FollowUp(text, hybrid,
             IF history # <<>> /\ hybrid.intent = "unknown"
             THEN get_intent_hybrid(history[Len(history)], extLast).intent
             ELSE "none")

get_intent_with_context(text, history, ext, extLast) ==
    ContextOn(text, history, get_intent_hybrid(text, ext), extLast)

----------------------------------------------------------------------------
(* main.py: the dispatcher of assistant_loop *)

\* the if/elif chain of assistant_loop: the intents of each condition, in order
LoopChain ==
    << [branch |-> "exit",      intents |-> {"exit"}],
       [branch |-> "greet",     intents |-> {"greet", "smalltalk_hello"}],
       [branch |-> "identity",  intents |-> {"get_name", "get_capabilities"}],
       [branch |-> "smalltalk", intents |-> {"smalltalk_howareyou", "smalltalk_ok",
                                             "thanks", "compliment"}],
       [branch |-> "google",    intents |-> {"search_google", "general_search"}],
       [branch |-> "youtube",   intents |-> {"search_youtube"}],
       [branch |-> "wikipedia", intents |-> {"search_wikipedia"}],
       [branch |-> "weather",   intents |-> {"temperature", "weather", "weather_extended"}],
       [branch |-> "clock",     intents |-> {"get_time", "get_date", "get_datetime"}],
       [branch |-> "open",      intents |-> {"open_app", "app_control"}],
       [branch |-> "close",     intents |-> {"close_app"}],
       [branch |-> "alarm",     intents |-> {"set_alarm", "list_alarms", "cancel_alarm"}],
       [branch |-> "help",      intents |-> {"help"}],
       [branch |-> "repeat",    intents |-> {"repeat"}] >>

\* a chain of independent `if` statements with the `else` on the last one:
\* every branch whose condition holds runs, and the else runs unless the last does
Chain_mut(chain, intent) ==
    LET hits == SelectSeq(chain, LAMBDA b : intent \in b.intents)
    IN  [i \in DOMAIN hits |-> hits[i].branch]
          \o (IF intent \in chain[Len(chain)].intents THEN <<>> ELSE <<"fallback">>)

\* if / elif ... / else: the branches that run, in order
RECURSIVE Chain(_, _)
Chain(chain, intent) ==
    IF chain = <<>> THEN <<"fallback">>
    ELSE IF intent \in Head(chain).intents THEN <<Head(chain).branch>>
    ELSE Chain(Tail(chain), intent)

\* entities.get(key, [query])[0] if entities.get(key) else query
EntityOrQuery(entities, key, query) ==
    IF Get(entities, key) # <<>> THEN Get(entities, key)[1] ELSE query

\* tts.speak: "ok" plays the text, "silent" is edge-tts failing with
\* CalledProcessError (caught, returns), "raises" is subprocess.run raising
\* anything else, e.g. FileNotFoundError when edge-tts is not installed
SpeakOutcomes == {"ok", "silent", "raises"}

\* outcomes of the OpenRouter request
ServiceOutcomes == {"answer", "blank_answer", "raises", "bad_status", "malformed"}

\* fallback_openrouter_gpt5: the stripped answer, or None
fallback_openrouter_gpt5(service) ==
    CASE service = "answer"       -> "answer"
      [] service = "blank_answer" -> ""
      [] OTHER                    -> "None"

Falsy(response) == response \in {"", "None"}

Apology == "I couldn't find an answer to that."

FallbackSpeech_mut(response) == <<response>>

\* lines 260-265: what the fallback branch speaks
FallbackSpeech(response) == IF Falsy(response) THEN <<Apology>> ELSE <<response>>

\* the collaborator of each search branch and the apology for its failure
SearchEngine(branch) ==
    CASE branch = "google"  -> "search_google"
      [] branch = "youtube" -> "search_youtube"
      [] OTHER              -> "search_wikipedia"

SearchSorry(branch) ==
    CASE branch = "google"  -> "I couldn't search for that."
      [] branch = "youtube" -> "I couldn't search YouTube."
      [] OTHER              -> "An error occurred while opening Wikipedia."

\* env: how the collaborators behave during the turn
\*   collab  : "ok" / "fails"  - the search, app, alarm or greeting collaborator
\*   service : an element of ServiceOutcomes
\*   typed   : whether the user types the alarm time,  heard : whether the
\*             second take_command of the alarm dialogue hears something
\* The result: calls - the collaborators invoked, with their argument;
\* spoken - the texts passed to speak, in order.
RunBranch(branch, intent, query, entities, history, env) ==
    CASE branch = "exit" ->
            [calls |-> <<>>, spoken |-> <<"Alright, have a great day! I'm just a call away.">>]
      [] branch = "greet" ->
            [calls |-> << <<"greetMe">> >>,
             spoken |-> IF env.collab = "fails" THEN <<"A required module is not available.">>
                        ELSE <<"greeting", "how can I help you today?">>]
      [] branch = "identity" ->
            [calls |-> <<>>,
             spoken |-> IF intent = "get_name" THEN <<"I'm Ashley">> ELSE <<"capabilities">>]
      [] branch = "smalltalk" ->
            [calls |-> <<>>,
             spoken |-> CASE intent = "smalltalk_howareyou" -> <<"I'm doing great">>
                          [] intent = "thanks"     -> <<"You're very welcome!">>
                          [] intent = "compliment" -> <<"Thank you so much!">>
                          [] OTHER                 -> <<"That's wonderful to hear!">>]
      [] branch \in {"google", "youtube", "wikipedia"} ->
            [calls |-> << <<SearchEngine(branch),
                            EntityOrQuery(entities, "search_query", query)>> >>,
             spoken |-> <<"Searching">>
                    \o (IF env.collab = "fails" THEN <<SearchSorry(branch)>> ELSE <<>>)]
      [] branch = "weather" ->
            [calls |-> << <<IF intent = "temperature" THEN "handle_temperature"
                            ELSE "handle_weather", query>> >>,
             spoken |-> IF env.collab # "fails" THEN <<"weather report">>
                        ELSE IF intent = "temperature"
                        THEN <<"Sorry, I couldn't fetch the temperature right now.">>
                        ELSE <<"Sorry, I couldn't fetch the weather information right now.">>]
      [] branch = "clock" ->
            [calls |-> <<>>,
             spoken |-> CASE intent = "get_time" -> <<"Sir, the time is">>
                          [] intent = "get_date" -> <<"Today is">>
                          [] OTHER -> <<"Sir, today is ... and the time is">>]
      [] branch \in {"open", "close"} ->
            [calls |-> << <<IF branch = "open" THEN "openappweb" ELSE "closeappweb",
                            EntityOrQuery(entities, "app_name", query)>> >>,
             spoken |-> IF env.collab = "fails"
                        THEN <<IF branch = "open" THEN "I couldn't open that."
                               ELSE "I couldn't close that.">>
                        ELSE <<"Launching, sir">>]
      [] branch = "alarm" ->
            CASE intent = "set_alarm" ->
                    IF env.typed
                    THEN [calls |-> << <<"alarm", "typed">> >>,
                          spoken |-> <<"Would you like to type the time or say it aloud?">>
                                \o (IF env.collab = "fails" THEN <<"Time format error. Use YYYY-MM-DD HH:MM AM/PM">>
                                    ELSE <<"Alarm set for">>)]
                    ELSE IF env.heard
                    THEN [calls |-> << <<"set_alarm_voice", "voice">> >>,
                          spoken |-> <<"Would you like to type the time or say it aloud?",
                                       "Speak now to set alarm.">>
                                \o (IF env.collab = "fails" THEN <<"I couldn't set the alarm. Please try again.">>
                                    ELSE <<"Alarm set for">>)]
                    ELSE [calls |-> <<>>,
                          spoken |-> <<"Would you like to type the time or say it aloud?",
                                       "Speak now to set alarm.",
                                       "Couldn't detect any speech. Please try again.">>]
              [] intent = "list_alarms" ->
                    [calls |-> << <<"list_alarms">> >>,
                     spoken |-> IF env.collab = "fails" THEN <<"I couldn't list your alarms.">>
                                ELSE <<"alarm list">>]
              [] OTHER ->
                    IF env.heard
                    THEN [calls |-> << <<"cancel_alarm", "voice">> >>,
                          spoken |-> <<"Which alarm would you like to cancel?">>
                                \o (IF env.collab = "fails" THEN <<"I couldn't cancel that alarm.">>
                                    ELSE <<"alarm cancelled">>)]
                    ELSE [calls |-> <<>>,
                          spoken |-> <<"Which alarm would you like to cancel?",
                                       "Couldn't detect any speech. Please try again.">>]
      [] branch = "help" ->
            [calls |-> <<>>, spoken |-> <<"I can help you with weather, search the web, ...">>]
      [] branch = "repeat" ->
            IF history # <<>>
            THEN [calls |-> <<>>,
                  spoken |-> << <<"I said:",
                                  IF Len(history) > 1 THEN history[Len(history)]
                                  ELSE <<"I don't have anything to repeat yet.">> >> >>]
            ELSE [calls |-> <<>>, spoken |-> <<"I don't have anything to repeat yet.">>]
      [] OTHER ->
            [calls |-> << <<"fallback_openrouter_gpt5", query>> >>,
             spoken |-> FallbackSpeech(fallback_openrouter_gpt5(env.service))]

Collect(branches, runs) ==
    [branches |-> branches,
     calls    |-> Flatten([i \in DOMAIN runs |-> runs[i].calls]),
     spoken   |-> Flatten([i \in DOMAIN runs |-> runs[i].spoken])]

RunAll(branches, intent, query, entities, history, env) ==
    Collect(branches, [i \in DOMAIN branches |->
                          RunBranch(branches[i], intent, query, entities, history, env)])

\* one run of the dispatch of assistant_loop (lines 146-265)
Dispatch(intent, query, entities, history, env) ==
    RunAll(Chain(LoopChain, intent), intent, query, entities, history, env)

\* conversation_history.append(query); pop(0) beyond the cap
HistoryCap == 10

AddToList_mut(history, text) == history \o <<text>>

AddToList(history, text) ==
    IF Len(history \o <<text>>) > HistoryCap
    THEN Tail(history \o <<text>>) ELSE history \o <<text>>

----------------------------------------------------------------------------
(* What the external models may return *)

ScoreLevels == {0, 29, 30, 31, 130}
ConfLevels  == {50, 60, 61, 70, 71, 80, 90}

NoNer   == [location |-> <<>>, time |-> <<>>, app_name |-> <<>>]
NerSets == { NoNer,
             [location |-> <<>>, time |-> <<>>, app_name |-> << <<"chrome">> >>] }

OneHot(a, x) == [i \in IntentNames |-> IF i = a THEN x ELSE 0]
TwoHot(a, x, b, y) == [i \in IntentNames |-> IF i = a THEN x ELSE IF i = b THEN y ELSE 0]

\* score vectors: one scoring intent, or two competing ones
ScoreVectors(names) ==
    {OneHot(a, x) : a \in names, x \in ScoreLevels}
      \cup {TwoHot("greet", x, "negation", y) : x, y \in {30, 31}}

\* outcomes of the models: the lexical scores in full with the classifier
\* missing, every lexical intent against every zero-shot result, and the
\* zero-shot result alone with the spaCy model missing
ExtLexical ==
    [nlp : BOOLEAN, classifier : {FALSE}, intent_scores : ScoreVectors(IntentNames),
     result : {[label |-> "greet", score |-> 100]}, ner : NerSets]
ExtBoth(names, levels) ==
    [nlp : {TRUE}, classifier : {TRUE},
     intent_scores : {OneHot(a, 31) : a \in names} \cup {OneHot("greet", 30)},
     result : [label : names, score : levels], ner : {NoNer}]
ExtZeroShot(names, levels) ==
    [nlp : {FALSE}, classifier : {TRUE}, intent_scores : {OneHot("greet", 31)},
     result : [label : names, score : levels], ner : {NoNer}]
Ext(names, levels) == ExtLexical \cup ExtBoth(names, levels) \cup ExtZeroShot(names, levels)

\* the models are deterministic: the same preprocessed text gives the same outcome
SameModels(t1, e1, t2, e2) == preprocess_text(t1) = preprocess_text(t2) => e1 = e2

\* the outcomes to consider for conversation_history[-1], which is classified
\* only when the text itself comes out unknown
LastExts(text, history, ext, family) ==
    IF history # <<>> /\ get_intent_hybrid(text, ext).intent = "unknown"
    THEN {e \in family : SameModels(text, ext, history[Len(history)], e)}
    ELSE {ext}

----------------------------------------------------------------------------
(* Idle values of the variables a specification does not use *)

PureIdle == inp = [fn |-> "none"] /\ out = [pending |-> TRUE]
LoopIdle == /\ prog = "none" /\ pc = "idle" /\ loop_history = <<>>
            /\ turn = [stage |-> "none"] /\ turns = 0
AppIdle  == /\ conversation_history = <<>> /\ tasks = <<>> /\ running = "none"
GhostIdle == arrived = <<>>

----------------------------------------------------------------------------
(* SpecHybrid: get_intent_hybrid applied to one text *)

HybridTexts == { <<" ">>, <<"search", " ", "for", " ", "python", "?">> }

InitHybrid ==
    /\ inp \in [fn : {"get_intent_hybrid"}, text : HybridTexts]
    /\ out = [pending |-> TRUE]
    /\ LoopIdle /\ AppIdle /\ GhostIdle

ApplyHybrid ==
    /\ inp.fn = "get_intent_hybrid" /\ out.pending
    /\ \E ext \in Ext(IntentNames, ConfLevels) :
          LET text == preprocess_text(inp.text)
              tr   == get_intent_transformer(text, ext.classifier, ext.result)
          IN  out' = [pending      |-> FALSE,
                      nlp          |-> ext.nlp,
                      classifier   |-> ext.classifier,
                      best_score   |-> ext.intent_scores[BestIntent(ext.intent_scores)],
                      spacy_intent |-> get_intent_spacy_simple(text, ext.nlp, ext.intent_scores),
                      tr_intent    |-> tr[1],
                      tr_conf      |-> tr[2],
                      extracted    |-> extract_entities(text, ext.nlp, ext.ner),
                      ret          |-> get_intent_hybrid(inp.text, ext)]
    /\ UNCHANGED <<inp, prog, pc, loop_history, turn, turns,
                   conversation_history, tasks, running, arrived>>

NextHybrid == ApplyHybrid

SpecHybrid == InitHybrid /\ [][NextHybrid]_vars


\* C4: get_intent_hybrid combines the lexical intent L and the secondary
\* result (S, c) as: L = S and L is not unknown -> (L, max(0.8, c)); else
\* c > 0.7 -> (S, c); else L not unknown -> (L, 0.6); else (unknown, 0.0).
\* Agreement on a non-unknown intent gives a confidence of at least 0.8.
HybridRule ==
    (inp.fn = "get_intent_hybrid" /\ ~out.pending) =>
        LET L == out.spacy_intent
            S == out.tr_intent
            c == out.tr_conf
        IN  /\ (L = S /\ L # "unknown") =>
                /\ out.ret.intent = L
                /\ out.ret.confidence = (IF c > 80 THEN c ELSE 80)
                /\ out.ret.confidence >= 80
            /\ (~(L = S /\ L # "unknown") /\ c > 70) =>
                (out.ret.intent = S /\ out.ret.confidence = c)
            /\ (~(L = S /\ L # "unknown") /\ c <= 70 /\ L # "unknown") =>
                (out.ret.intent = L /\ out.ret.confidence = 60)
            /\ (~(L = S /\ L # "unknown") /\ c <= 70 /\ L = "unknown") =>
                (out.ret.intent = "unknown" /\ out.ret.confidence = 0)

\* both strategies agree on "weather", the secondary with confidence 0.5
HybridRuleWitness ==
    /\ inp.fn = "get_intent_hybrid" /\ ~out.pending
    /\ out.spacy_intent = "weather" /\ out.tr_intent = "weather"
    /\ out.tr_conf = 50 /\ out.ret.confidence = 80

\* C5 as stated: with a secondary confidence of 0.6 or less the secondary
\* result counts as unknown, so the outcome is that of the lexical intent
\* alone: (L, 0.6), or (unknown, 0.0).
SecondaryAcceptedAbove06 ==
    (inp.fn = "get_intent_hybrid" /\ ~out.pending /\ out.classifier
        /\ out.tr_conf <= 60) =>
        /\ out.ret.intent = out.spacy_intent
        /\ out.ret.confidence = (IF out.spacy_intent = "unknown" THEN 0 ELSE 60)

\* C5 amended: the secondary label is returned on its own only above 0.7;
\* at 0.7 or less the intent is the lexical one, and a secondary label equal
\* to it still counts as agreement (confidence 0.8), whatever its confidence.
SecondaryAloneAbove07 ==
    (inp.fn = "get_intent_hybrid" /\ ~out.pending /\ out.tr_conf <= 70) =>
        /\ out.ret.intent = out.spacy_intent
        /\ out.ret.confidence =
              (IF out.spacy_intent = "unknown" THEN 0
               ELSE IF out.tr_intent = out.spacy_intent THEN 80 ELSE 60)

\* a secondary label at 0.61..0.7 that differs from the lexical intent is dropped
SecondaryAloneWitness ==
    /\ inp.fn = "get_intent_hybrid" /\ ~out.pending
    /\ out.classifier /\ out.tr_conf = 70 /\ out.tr_intent = "help"
    /\ out.spacy_intent = "greet"
    /\ out.ret.intent = "greet" /\ out.ret.confidence = 60

\* C6: with the secondary classifier unavailable, a text whose best lexical
\* score does not exceed 0.3 (0.3 itself included) is classified as
\* (unknown, 0.0, entities), entities being the extracted entity map (the
\* empty dict for a text that preprocesses to nothing).
BelowFloorUnknown ==
    (inp.fn = "get_intent_hybrid" /\ ~out.pending /\ ~out.classifier
        /\ out.best_score <= 30) =>
        /\ out.ret.intent = "unknown"
        /\ out.ret.confidence = 0
        /\ out.ret.entities =
              (IF preprocess_text(inp.text) = <<>> THEN <<>> ELSE out.extracted)

\* spaCy loaded, classifier missing, best score exactly 0.3 on a real text
BelowFloorWitness ==
    /\ inp.fn = "get_intent_hybrid" /\ ~out.pending
    /\ out.nlp /\ ~out.classifier /\ out.best_score = 30
    /\ preprocess_text(inp.text) # <<>>
    /\ out.ret.intent = "unknown"
    /\ out.ret.entities.search_query = << <<"python">> >>

----------------------------------------------------------------------------
(* SpecContext: get_intent_with_context applied to one text and history *)

ContextProbe == {"search_google", "weather", "set_alarm", "open_app", "greet"}

ContextTexts ==
    { <<>>, <<" ">>,
      <<"tell", " ", "me", " ", "more", " ", "about", " ", "that">>,
      <<"Tell", " ", "me", " ", "MORE">>,
      <<"something", " ", "else">>,
      <<"volume", " ", "up">>,
      <<"search", " ", "for", " ", "python">> }

ContextHistories ==
    { <<>>,
      << <<"search", " ", "for", " ", "python">> >>,
      << <<"search", " ", "for", " ", "python">>, <<"volume", " ", "up">> >>,
      << <<"tell", " ", "me", " ", "more", " ", "about", " ", "that">> >> }

ExtContext ==
    [nlp : {TRUE}, classifier : {FALSE},
     intent_scores : {OneHot(a, 31) : a \in ContextProbe} \cup {OneHot("greet", 30)},
     result : {[label |-> "greet", score |-> 50]}, ner : {NoNer}]
    \cup
    [nlp : {TRUE}, classifier : {TRUE}, intent_scores : {OneHot("greet", 30)},
     result : {[label |-> "weather", score |-> 71], [label |-> "greet", score |-> 50]},
     ner : {NoNer}]

InitContext ==
    /\ inp \in [fn : {"get_intent_with_context"}, text : ContextTexts,
                history : ContextHistories]
    /\ out = [pending |-> TRUE]
    /\ LoopIdle /\ AppIdle /\ GhostIdle

ApplyContext ==
    /\ inp.fn = "get_intent_with_context" /\ out.pending
    /\ \E ext, extLast \in ExtContext :
          /\ inp.history # <<>> =>
                SameModels(inp.text, ext, inp.history[Len(inp.history)], extLast)
          /\ out' = [pending |-> FALSE,
                     ret     |-> get_intent_with_context(inp.text, inp.history, ext, extLast)]
    /\ UNCHANGED <<inp, prog, pc, loop_history, turn, turns,
                   conversation_history, tasks, running, arrived>>

NextContext == ApplyContext

SpecContext == InitContext /\ [][NextContext]_vars

\* the override conditions of C7; text is the text the triggers are sought in
FollowUpCase(text) ==
    /\ out.ret.hybrid.intent = "unknown"
    /\ inp.history # <<>>
    /\ out.ret.last_intent \in DOMAIN follow_up_patterns
    /\ \E pattern \in follow_up_patterns[out.ret.last_intent] : Contains(text, pattern)

Overridden ==
    /\ out.ret.intent = out.ret.last_intent
    /\ out.ret.confidence = 70
    /\ out.ret.entities = out.ret.hybrid.entities

Unchanged ==
    /\ out.ret.intent = out.ret.hybrid.intent
    /\ out.ret.confidence = out.ret.hybrid.confidence
    /\ out.ret.entities = out.ret.hybrid.entities

\* C7 as stated: get_intent_with_context returns (last_intent, 0.7, entities)
\* exactly when the hybrid result is unknown, the history is non-empty,
\* last_intent has a follow-up entry and one of its trigger phrases is a
\* substring of text; otherwise it returns the hybrid result unchanged.
FollowUpExactly ==
    (inp.fn = "get_intent_with_context" /\ ~out.pending) =>
        IF FollowUpCase(inp.text) THEN Overridden ELSE Unchanged

\* C7 amended: the same, the trigger phrase being a substring of the
\* lower-cased text.
FollowUpExactlyLower ==
    (inp.fn = "get_intent_with_context" /\ ~out.pending) =>
        IF FollowUpCase(LowerText(inp.text)) THEN Overridden ELSE Unchanged

\* "Tell me MORE" after a search request is resolved as search_google
FollowUpWitness ==
    /\ inp.fn = "get_intent_with_context" /\ ~out.pending
    /\ inp.text = <<"Tell", " ", "me", " ", "MORE">>
    /\ Len(inp.history) = 2
    /\ out.ret.hybrid.intent = "unknown"
    /\ out.ret.intent = "search_google" /\ out.ret.confidence = 70


----------------------------------------------------------------------------
(* app.py: process_intent and the per-client history *)

\* the if/elif chain of process_intent
AppChain ==
    << [branch |-> "exit",      intents |-> {"exit"}],
       [branch |-> "greet",     intents |-> {"greet", "smalltalk_hello"}],
       [branch |-> "identity",  intents |-> {"get_name", "get_capabilities"}],
       [branch |-> "smalltalk", intents |-> {"smalltalk_howareyou", "smalltalk_ok",
                                             "thanks", "compliment"}],
       [branch |-> "google",    intents |-> {"search_google", "general_search"}],
       [branch |-> "youtube",   intents |-> {"search_youtube"}],
       [branch |-> "wikipedia", intents |-> {"search_wikipedia"}],
       [branch |-> "weather",   intents |-> {"temperature", "weather", "weather_extended"}],
       [branch |-> "clock",     intents |-> {"get_time", "get_date", "get_datetime"}],
       [branch |-> "open",      intents |-> {"open_app", "app_control"}],
       [branch |-> "close",     intents |-> {"close_app"}],
       [branch |-> "alarm",     intents |-> {"set_alarm", "list_alarms", "cancel_alarm"}],
       [branch |-> "help",      intents |-> {"help"}],
       [branch |-> "repeat",    intents |-> {"repeat"}] >>

\* the response each branch of process_intent returns
Respond(branch, intent, text, entities) ==
    CASE branch = "exit"      -> <<"Alright, have a great day! I'm just a call away.">>
      [] branch = "greet"     -> <<"Good day, sir. Welcome back! How can I help you today?">>
      [] branch = "identity"  -> IF intent = "get_name" THEN <<"I'm Ashley">>
                                 ELSE <<"capabilities">>
      [] branch = "smalltalk" ->
            (CASE intent = "smalltalk_howareyou" -> <<"I'm doing great">>
               [] intent = "thanks"     -> <<"You're very welcome!">>
               [] intent = "compliment" -> <<"Thank you so much!">>
               [] OTHER                 -> <<"That's wonderful to hear!">>)
      [] branch = "google"    -> <<"Searching Google for:", EntityOrQuery(entities, "search_query", text)>>
      [] branch = "youtube"   -> <<"Searching YouTube for:", EntityOrQuery(entities, "search_query", text)>>
      [] branch = "wikipedia" -> <<"Searching Wikipedia for:", EntityOrQuery(entities, "search_query", text)>>
      [] branch = "weather"   -> IF intent = "temperature"
                                 THEN <<"Getting temperature information for you.">>
                                 ELSE <<"Getting weather information for you.">>
      [] branch = "clock"     ->
            (CASE intent = "get_time" -> <<"Sir, the time is">>
               [] intent = "get_date" -> <<"Today is">>
               [] OTHER -> <<"Sir, today is ... and the time is">>)
      [] branch = "open"      -> <<"Opening", EntityOrQuery(entities, "app_name", text), "for you.">>
      [] branch = "close"     -> <<"Closing", EntityOrQuery(entities, "app_name", text), "for you.">>
      [] branch = "alarm"     ->
            (CASE intent = "set_alarm"   -> <<"I'll help you set an alarm. Please provide the time.">>
               [] intent = "list_alarms" -> <<"Let me check your alarms for you.">>
               [] OTHER                  -> <<"Which alarm would you like to cancel?">>)
      [] branch = "help"      -> <<"I can help you with weather, search the web, ...">>
      [] branch = "repeat"    -> <<"I don't have anything to repeat yet.">>
      [] OTHER -> <<"I'm not sure how to help with that. Could you try rephrasing your request?">>

\* one call of process_intent: the branches that run and the response returned
process_intent(intent, text, entities) ==
    LET branches == Chain(AppChain, intent)
    IN  [branches |-> branches,
         calls    |-> <<>>,       \* no branch of lines 196-283 calls a collaborator
         response |-> Respond(branches[Len(branches)], intent, text, entities)]

\* conversation_history.get(client_id, [])
get_user_history(history, client_id) == Get(history, client_id)

\* the dict after add_to_history(client_id, text)
add_to_history(history, client_id, text) ==
    [c \in DOMAIN history \cup {client_id} |->
        IF c = client_id THEN AddToList(Get(history, client_id), text) ELSE history[c]]

YieldsAt_mut(at) == TRUE

\* the positions at which a coroutine of app.py awaits, so that the event
\* loop may run another one: receive_text, send_text, and the end of a request
YieldsAt(at) == at \in {"pending", "connect", "recv", "done", "closed"}


----------------------------------------------------------------------------
(* Spec: one run of main.py (assistant_loop) or of app.py (the server) *)

MaxTurns    == 2        \* turns assistant_loop takes
MaxMessages == 2        \* messages a socket receives

\* what take_command may return
Heard == { <<" ">>, <<"Tell", " ", "me", " ", "MORE">>,
           <<"search", " ", "for", " ", "python">> }

\* the models' outcomes in a turn: every lexical intent with the classifier
\* missing, an agreement, and a confident zero-shot label
ExtTurn ==
    [nlp : {TRUE}, classifier : {FALSE},
     intent_scores : {OneHot(a, 31) : a \in IntentNames} \cup {OneHot("greet", 30)},
     result : {[label |-> "greet", score |-> 50]}, ner : NerSets]
    \cup
    [nlp : {TRUE}, classifier : {TRUE},
     intent_scores : {OneHot("weather", 31), OneHot("greet", 30)},
     result : {[label |-> "weather", score |-> 50], [label |-> "volume_up", score |-> 71]},
     ner : {NoNer}]

\* the same for a command of the server, without the entity variants
ExtCommand == {e \in ExtTurn : e.ner = NoNer}

Envs == [collab : {"ok", "fails"}, service : ServiceOutcomes,
         typed : BOOLEAN, heard : BOOLEAN, tts : {"ok", "silent", "raises"}]

NoTurn == [stage |-> "none"]

Sessions == {"main", "c1"}

Arrive(session, text) == [arrived EXCEPT ![session] = @ \o <<text>>]

TaskIds == {"http1", "ws1"}

\* what a client may send
Sent == { <<"Tell", " ", "me", " ", "MORE">>, <<"search", " ", "for", " ", "python">> }

IdleTask(kind, client_id, at) ==
    [kind |-> kind, client_id |-> client_id, at |-> at, handled |-> 0,
     cmd |-> NoTurn]

Init ==
    /\ PureIdle
    /\ prog \in {"main", "app"}
    /\ pc = IF prog = "main" THEN "listen" ELSE "idle"
    /\ loop_history = <<>>
    /\ turn = NoTurn
    /\ turns = 0
    /\ conversation_history = <<>>
    /\ running = "none"
    /\ arrived = [c \in Sessions |-> <<>>]
    /\ IF prog = "main" THEN tasks = <<>>
       ELSE \E c \in {"c1", "None"} :
               tasks = [t \in TaskIds |->
                          IF t = "http1" THEN IdleTask("http", c, "pending")
                          ELSE IdleTask("ws", "c1", "connect")]

(* assistant_loop *)

\* take_command returned nothing: `continue`
ListenNothing ==
    /\ prog = "main" /\ pc = "listen" /\ turns < MaxTurns
    /\ turn' = NoTurn
    /\ UNCHANGED <<inp, out, prog, pc, loop_history, turns,
                   conversation_history, tasks, running, arrived>>

\* lines 126-132: a non-empty query, lower-cased and stripped
Listen ==
    /\ prog = "main" /\ pc = "listen" /\ turns < MaxTurns
    /\ \E heard \in Heard :
          turn' = [stage |-> "heard", query |-> Strip(LowerText(heard)),
                   before |-> loop_history]
    /\ pc' = "classify"
    /\ UNCHANGED <<inp, out, prog, loop_history, turns,
                   conversation_history, tasks, running, arrived>>

\* line 135
Classify ==
    /\ prog = "main" /\ pc = "classify"
    /\ \E ext \in ExtTurn :
       \E extLast \in LastExts(turn.query, loop_history, ext, ExtContext) :
          /\ LET r == get_intent_with_context(turn.query, loop_history, ext, extLast)
             IN  turn' = [stage |-> "classified", query |-> turn.query,
                          before |-> turn.before, intent |-> r.intent,
                          confidence |-> r.confidence, entities |-> r.entities]
    /\ pc' = "remember"
    /\ UNCHANGED <<inp, out, prog, loop_history, turns,
                   conversation_history, tasks, running, arrived>>

\* lines 141-143
Remember ==
    /\ prog = "main" /\ pc = "remember"
    /\ loop_history' = AddToList(loop_history, turn.query)
    /\ arrived' = Arrive("main", turn.query)
    /\ pc' = "dispatch"
    /\ UNCHANGED <<inp, out, prog, turn, turns, conversation_history, tasks, running>>

\* lines 146-274: the dispatch, and the except clauses around it.  A speak
\* that raises is caught by the loop, whose own apology raises in turn and
\* leaves assistant_loop.
DispatchTurn ==
    /\ prog = "main" /\ pc = "dispatch"
    /\ \E env \in Envs :
          LET d == Dispatch(turn.intent, turn.query, turn.entities, loop_history, env)
              fell == "fallback" \in Range(d.branches)
          IN  /\ turn' = [stage |-> "done", query |-> turn.query,
                          before |-> turn.before, intent |-> turn.intent,
                          confidence |-> turn.confidence, entities |-> turn.entities,
                          branches |-> d.branches, calls |-> d.calls,
                          spoken |-> d.spoken,
                          service |-> IF fell THEN env.service ELSE "none",
                          tts |-> env.tts,
                          raised |-> IF env.tts = "raises" THEN "tts" ELSE "none"]
              /\ pc' = IF env.tts = "raises" THEN "crashed"
                       ELSE IF "exit" \in Range(d.branches) THEN "exited"
                       ELSE "listen"
    /\ turns' = turns + 1
    /\ UNCHANGED <<inp, out, prog, loop_history, conversation_history,
                   tasks, running, arrived>>

\* lines 267-274: an exception raised inside the try block, at any point of
\* the turn, by take_command, the classifier or a handler.  KeyboardInterrupt
\* is answered with "Goodbye!" and `break`; any other Exception with the
\* apology, after which the loop takes the next command.  A speak that raises
\* inside the except clause leaves assistant_loop.
TurnFails ==
    /\ prog = "main" /\ pc \in {"listen", "classify", "remember", "dispatch"}
    /\ pc = "listen" => turns < MaxTurns
    /\ \E fault \in {"Exception", "KeyboardInterrupt"}, tts \in SpeakOutcomes :
          /\ turn' = [stage |-> "failed", at |-> pc, fault |-> fault, tts |-> tts,
                      spoken |-> IF fault = "KeyboardInterrupt" THEN <<"Goodbye!">>
                                 ELSE <<"I encountered an error. Let me try to continue.">>]
          /\ pc' = IF tts = "raises" THEN "crashed"
                   ELSE IF fault = "KeyboardInterrupt" THEN "interrupted"
                   ELSE "listen"
    /\ turns' = turns + 1
    /\ UNCHANGED <<inp, out, prog, loop_history, conversation_history,
                   tasks, running, arrived>>

(* app.py: voice_command, websocket_endpoint, process_voice_command *)

\* the task moves to position `at` with command state cmd; it keeps the
\* event loop unless it awaits there
Move(t, at, cmd) ==
    /\ tasks' = [tasks EXCEPT ![t].at = at, ![t].cmd = cmd]
    /\ running' = IF YieldsAt(at) THEN "none" ELSE t

MayRun(t) == prog = "app" /\ running \in {"none", t}

\* POST /api/voice-command is scheduled
HttpStart(t) ==
    /\ MayRun(t) /\ tasks[t].kind = "http" /\ tasks[t].at = "pending"
    /\ \E text \in Sent, use_context \in BOOLEAN :
          Move(t, "enter", [stage |-> "enter", text |-> text, use_context |-> use_context])
    /\ UNCHANGED <<inp, out, prog, pc, loop_history, turn, turns,
                   conversation_history, arrived>>

\* await manager.connect(websocket, client_id)
WsConnect(t) ==
    /\ MayRun(t) /\ tasks[t].kind = "ws" /\ tasks[t].at = "connect"
    /\ Move(t, "recv", NoTurn)
    /\ UNCHANGED <<inp, out, prog, pc, loop_history, turn, turns,
                   conversation_history, arrived>>

\* receive_text returns a voice_command message
WsCommand(t) ==
    /\ MayRun(t) /\ tasks[t].kind = "ws" /\ tasks[t].at = "recv"
    /\ tasks[t].handled < MaxMessages
    /\ \E text \in Sent, use_context \in BOOLEAN :
          /\ tasks' = [tasks EXCEPT ![t].at = "enter", ![t].handled = @ + 1,
                          ![t].cmd = [stage |-> "enter", text |-> text,
                                      use_context |-> use_context]]
          /\ running' = IF YieldsAt("enter") THEN "none" ELSE t
    /\ UNCHANGED <<inp, out, prog, pc, loop_history, turn, turns,
                   conversation_history, arrived>>

\* receive_text returns a ping or an unknown message: answered, nothing else
WsOther(t) ==
    /\ MayRun(t) /\ tasks[t].kind = "ws" /\ tasks[t].at = "recv"
    /\ tasks[t].handled < MaxMessages
    /\ tasks' = [tasks EXCEPT ![t].handled = @ + 1]
    /\ running' = "none"
    /\ UNCHANGED <<inp, out, prog, pc, loop_history, turn, turns,
                   conversation_history, arrived>>

\* WebSocketDisconnect
WsDisconnect(t) ==
    /\ MayRun(t) /\ tasks[t].kind = "ws" /\ tasks[t].at = "recv"
    /\ tasks' = [tasks EXCEPT ![t].at = "closed", ![t].handled = 0]
    /\ running' = "none"
    /\ UNCHANGED <<inp, out, prog, pc, loop_history, turn, turns,
                   conversation_history, arrived>>

\* line 156
ReadHistory(t) ==
    /\ MayRun(t) /\ tasks[t].at = "enter"
    /\ LET c == tasks[t].cmd
           history == IF c.use_context /\ tasks[t].client_id # "None"
                      THEN get_user_history(conversation_history, tasks[t].client_id)
                      ELSE <<>>
       IN  Move(t, "read", [stage |-> "read", text |-> c.text,
                            use_context |-> c.use_context, history |-> history,
                            before |-> Get(conversation_history, tasks[t].client_id)])
    /\ UNCHANGED <<inp, out, prog, pc, loop_history, turn, turns,
                   conversation_history, arrived>>

\* lines 159-162
ClassifyCommand(t) ==
    /\ MayRun(t) /\ tasks[t].at = "read"
    /\ LET c == tasks[t].cmd
           history == IF c.use_context THEN c.history ELSE <<>>
       IN  \E ext \in ExtCommand :
           \E extLast \in LastExts(c.text, history, ext, ExtContext) :
              /\ LET r == get_intent_with_context(c.text, history, ext, extLast)
                 IN  Move(t, "classified",
                          [stage |-> "classified", text |-> c.text,
                           use_context |-> c.use_context, history |-> c.history,
                           before |-> c.before, intent |-> r.intent, confidence |-> r.confidence,
                           entities |-> r.entities])
    /\ UNCHANGED <<inp, out, prog, pc, loop_history, turn, turns,
                   conversation_history, arrived>>

\* lines 168-169
AddHistory(t) ==
    /\ MayRun(t) /\ tasks[t].at = "classified"
    /\ IF tasks[t].client_id # "None"
       THEN /\ conversation_history' =
                  add_to_history(conversation_history, tasks[t].client_id, tasks[t].cmd.text)
            /\ arrived' = Arrive(tasks[t].client_id, tasks[t].cmd.text)
       ELSE UNCHANGED <<conversation_history, arrived>>
    /\ Move(t, "appended", tasks[t].cmd)
    /\ UNCHANGED <<inp, out, prog, pc, loop_history, turn, turns>>

\* line 172
ProcessIntent(t) ==
    /\ MayRun(t) /\ tasks[t].at = "appended"
    /\ LET c == tasks[t].cmd
           d == process_intent(c.intent, c.text, c.entities)
       IN  Move(t, "processed",
                [stage |-> "processed", text |-> c.text, intent |-> c.intent,
                 branches |-> d.branches, response |-> d.response])
    /\ UNCHANGED <<inp, out, prog, pc, loop_history, turn, turns,
                   conversation_history, arrived>>

\* the result is returned (HTTP) or sent (await send_personal_message)
Reply(t) ==
    /\ MayRun(t) /\ tasks[t].at = "processed"
    /\ Move(t, IF tasks[t].kind = "http" THEN "done" ELSE "recv", NoTurn)
    /\ UNCHANGED <<inp, out, prog, pc, loop_history, turn, turns,
                   conversation_history, arrived>>

Next ==
    \/ ListenNothing \/ Listen \/ Classify \/ Remember \/ DispatchTurn \/ TurnFails
    \/ \E t \in TaskIds :
          \/ HttpStart(t) \/ WsConnect(t) \/ WsCommand(t) \/ WsOther(t)
          \/ WsDisconnect(t) \/ ReadHistory(t) \/ ClassifyCommand(t)
          \/ AddHistory(t) \/ ProcessIntent(t) \/ Reply(t)

Spec == Init /\ [][Next]_vars


\* C1: every intent name of the INTENTS catalog has a handler in
\* assistant_loop: a turn reaches the generative fallback only if its intent
\* is unknown or is not a name of the catalog.
FallbackOnlyForUnknown ==
    (prog = "main" /\ turn.stage = "done" /\ "fallback" \in Range(turn.branches)) =>
        (turn.intent = "unknown" \/ turn.intent \notin IntentNames)

\* C2: in every turn of assistant_loop and in every call of process_intent
\* exactly one branch of the dispatch runs: one handler or the fallback.
ExactlyOneBranch ==
    /\ (prog = "main" /\ turn.stage = "done") => Len(turn.branches) = 1
    /\ \A t \in DOMAIN tasks :
          tasks[t].cmd.stage = "processed" => Len(tasks[t].cmd.branches) = 1

\* a cancel_alarm turn has run the alarm branch and nothing else
ExactlyOneBranchWitness ==
    /\ prog = "main" /\ turn.stage = "done"
    /\ turn.intent = "cancel_alarm" /\ turn.branches = <<"alarm">>

HistoryWrittenAfterDispatch ==
    /\ (prog = "main" /\ pc = "dispatch") => loop_history = turn.before
    /\ \A t \in DOMAIN tasks :
          (tasks[t].at = "appended" /\ tasks[t].client_id # "None") =>
              Get(conversation_history, tasks[t].client_id) = tasks[t].cmd.before

\* C12: assistant_loop ends only when a turn's intent is exit or a
\* KeyboardInterrupt occurs; whenever any other error is raised during a
\* turn, by whatever component, the loop apologises and takes the next command.
LoopEndsOnlyOnExitOrInterrupt ==
    prog = "main" =>
        /\ pc \in {"exited", "interrupted", "crashed"} =>
              \/ turn.stage = "done" /\ turn.intent = "exit"
              \/ turn.stage = "failed" /\ turn.fault = "KeyboardInterrupt"
        /\ (turn.stage = "failed" /\ turn.fault = "Exception") =>
              /\ pc = "listen"
              /\ turn.spoken = <<"I encountered an error. Let me try to continue.">>
        /\ (turn.stage = "done" /\ turn.raised # "none") => pc = "listen"

\* C10: two turns of the same session are never interleaved: while one task
\* is between its read of the session's history and its append, no other
\* task of that session is inside a turn and the history is the one it read.
InTurn(t) == tasks[t].at \in {"read", "classified"}
BusyTurn(t) == tasks[t].at \in {"enter", "read", "classified", "appended", "processed"}

TurnsSerialized ==
    \A t \in DOMAIN tasks :
        (InTurn(t) /\ tasks[t].client_id # "None") =>
            /\ Get(conversation_history, tasks[t].client_id) = tasks[t].cmd.before
            /\ \A u \in DOMAIN tasks \ {t} :
                  tasks[u].client_id = tasks[t].client_id => ~BusyTurn(u)

\* a request of session c1 is classified while the socket of c1, which has
\* already written the history, waits for its next message
TurnsSerializedWitness ==
    /\ prog = "app"
    /\ tasks["http1"].client_id = "c1" /\ tasks["http1"].at = "classified"
    /\ tasks["ws1"].at = "recv" /\ tasks["ws1"].handled = 1
    /\ Len(tasks["http1"].cmd.before) = 1

----------------------------------------------------------------------------
(* SpecHistory: the history updates of the turns of one session *)

MaxArrivals == 12

Utterances == { <<"a">>, <<"b">> }

InitHistory ==
    /\ PureIdle
    /\ prog \in {"main", "app"}
    /\ pc = "idle" /\ loop_history = <<>> /\ turn = NoTurn /\ turns = 0
    /\ AppIdle
    /\ arrived = [c \in Sessions |-> <<>>]

\* main.py lines 141-143 of a turn with this query
TurnOfLoop ==
    /\ prog = "main" /\ turns < MaxArrivals
    /\ \E query \in Utterances :
          /\ loop_history' = AddToList(loop_history, query)
          /\ arrived' = Arrive("main", query)
    /\ turns' = turns + 1
    /\ UNCHANGED <<inp, out, prog, pc, turn, conversation_history, tasks, running>>

\* app.py line 169 of a command of client c1 with this text
TurnOfClient ==
    /\ prog = "app" /\ turns < MaxArrivals
    /\ \E text \in Utterances :
          /\ conversation_history' = add_to_history(conversation_history, "c1", text)
          /\ arrived' = Arrive("c1", text)
    /\ turns' = turns + 1
    /\ UNCHANGED <<inp, out, prog, pc, loop_history, turn, tasks, running>>

NextHistory == TurnOfLoop \/ TurnOfClient

SpecHistory == InitHistory /\ [][NextHistory]_vars

LastN(seq, n) == IF Len(seq) <= n THEN seq ELSE SubSeq(seq, Len(seq) - n + 1, Len(seq))

\* C9: after any sequence of turns of a session the stored history holds at
\* most 10 utterances, exactly the most recent ones in arrival order.
HistoryIsRecentWindow ==
    /\ Len(loop_history) <= 10
    /\ loop_history = LastN(arrived["main"], 10)
    /\ \A c \in DOMAIN conversation_history :
          /\ Len(conversation_history[c]) <= 10
          /\ conversation_history[c] = LastN(arrived[c], 10)

\* twelve turns: the two oldest utterances are gone
HistoryWindowWitness ==
    /\ Len(arrived["main"]) = 12 /\ Len(loop_history) = 10
    /\ arrived["main"][1] = <<"a">> /\ arrived["main"][3] = <<"b">>
    /\ loop_history[1] = <<"b">>

----------------------------------------------------------------------------
(* error_handler.py: the handle_errors decorator *)

\* what the wrapped function may do: return, or raise an exception of one of
\* these classes.  RuntimeError stands for any other subclass of Exception,
\* SystemExit for a BaseException that is neither Exception nor
\* KeyboardInterrupt.
Raisable ==
    {"none", "SpeechRecognitionError", "TTSError", "APIError", "ModuleImportError",
     "FileNotFoundError", "PermissionError", "ValueError", "KeyboardInterrupt",
     "RuntimeError", "SystemExit"}

\* the except clause of the wrapper that catches the exception, "none" if no
\* clause does
ExceptClause(exc) ==
    CASE exc \in {"SpeechRecognitionError", "TTSError", "APIError", "ModuleImportError",
                  "FileNotFoundError", "PermissionError", "ValueError"} -> exc
      [] exc = "KeyboardInterrupt" -> "KeyboardInterrupt"
      [] exc = "RuntimeError"      -> "Exception"
      [] OTHER                     -> "none"

\* whether the clause calls speak
ClauseSpeaks(clause, speak_error) ==
    /\ speak_error
    /\ clause \in {"SpeechRecognitionError", "APIError", "ModuleImportError",
                   "FileNotFoundError", "PermissionError", "ValueError", "Exception"}

\* msg = error_message or "<default of the clause>"
ClauseMessage(clause, error_message) ==
    CASE clause = "SpeechRecognitionError" -> "I couldn't hear you clearly. Please try again."
      [] clause = "ModuleImportError"      -> "A required module is not available."
      [] clause = "PermissionError"        -> "I don't have permission to do that."
      [] error_message # "None"            -> error_message
      [] clause = "APIError"               -> "I'm having trouble connecting to that service right now."
      [] clause = "FileNotFoundError"      -> "I couldn't find a required file."
      [] clause = "ValueError"             -> "I received an invalid value."
      [] OTHER                             -> "Something went wrong. Please try again."

Returns(value, said) == [outcome |-> "returns", value |-> value, exception |-> "none", said |-> said]
Raises(exc, said)    == [outcome |-> "raises", value |-> "none", exception |-> exc, said |-> said]

\* the body of an except clause that returns default_return
Handled(clause, speak_error, default_return, error_message, tts) ==
    IF ~ClauseSpeaks(clause, speak_error) THEN Returns(default_return, <<>>)
    ELSE IF tts = "raises" THEN Raises("FileNotFoundError", <<>>)
    ELSE Returns(default_return, <<ClauseMessage(clause, error_message)>>)

\* wrapper(*args): func raises `raised` or returns `value`; tts is how speak
\* behaves if the wrapper calls it
handle_errors(speak_error, default_return, error_message, raised, value, tts) ==
    IF raised = "none" THEN Returns(value, <<>>)
    ELSE IF ExceptClause(raised) \in {"KeyboardInterrupt", "none"} THEN Raises(raised, <<>>)
    ELSE Handled(ExceptClause(raised), speak_error, default_return, error_message, tts)

(* SpecWrapper: one call of a function wrapped by handle_errors *)

InitWrapper ==
    /\ inp \in [fn : {"handle_errors"}, speak_error : BOOLEAN,
                default_return : {"None", "default"},
                error_message : {"None", "I couldn't search for that."},
                raised : Raisable, value : {"result"}]
    /\ out = [pending |-> TRUE]
    /\ LoopIdle /\ AppIdle /\ GhostIdle

CallWrapped ==
    /\ inp.fn = "handle_errors" /\ out.pending
    /\ \E tts \in SpeakOutcomes :
          out' = [pending |-> FALSE, tts |-> tts,
                  ret |-> handle_errors(inp.speak_error, inp.default_return,
                                        inp.error_message, inp.raised, inp.value, tts)]
    /\ UNCHANGED <<inp, prog, pc, loop_history, turn, turns,
                   conversation_history, tasks, running, arrived>>

NextWrapper == CallWrapped

SpecWrapper == InitWrapper /\ [][NextWrapper]_vars

\* C11: a wrapped handler lets no exception but KeyboardInterrupt reach its
\* caller: for every other exception of the wrapped function the wrapper
\* returns default_return, and a KeyboardInterrupt is re-raised.
WrapperContainsErrors ==
    (inp.fn = "handle_errors" /\ ~out.pending) =>
        /\ inp.raised \notin {"none", "KeyboardInterrupt"} =>
              out.ret.outcome = "returns" /\ out.ret.value = inp.default_return
        /\ inp.raised = "KeyboardInterrupt" =>
              out.ret.outcome = "raises" /\ out.ret.exception = "KeyboardInterrupt"
        /\ out.ret.outcome = "raises" => out.ret.exception = "KeyboardInterrupt"

----------------------------------------------------------------------------
(* SpecDispatch: the two dispatchers run on the same classified command *)

DispatchEntities ==
    { NoEntities,
      [NoEntities EXCEPT !["search_query"] = << <<"python">> >>],
      [NoEntities EXCEPT !["app_name"] = << <<"chrome">> >>] }

InitDispatch ==
    /\ inp \in [fn : {"dispatch"}, intent : IntentNames \cup {"unknown"},
                text : { <<"open", " ", "chrome">> }, entities : DispatchEntities]
    /\ out = [pending |-> TRUE]
    /\ LoopIdle /\ AppIdle /\ GhostIdle

\* the dispatch of assistant_loop and process_intent on the same command,
\* the collaborators behaving as env says
ApplyDispatch ==
    /\ inp.fn = "dispatch" /\ out.pending
    /\ \E env \in Envs :
          out' = [pending |-> FALSE, env |-> env,
                  loop |-> Dispatch(inp.intent, inp.text, inp.entities, <<inp.text>>, env),
                  app  |-> process_intent(inp.intent, inp.text, inp.entities)]
    /\ UNCHANGED <<inp, prog, pc, loop_history, turn, turns,
                   conversation_history, tasks, running, arrived>>

NextDispatch == ApplyDispatch

SpecDispatch == InitDispatch /\ [][NextDispatch]_vars

\* the collaborators a dispatch invoked, without their arguments
Invoked(calls) == [i \in DOMAIN calls |-> calls[i][1]]

\* C13: process_intent implements the dispatch of assistant_loop: for every
\* intent it invokes the same collaborator before it returns its response,
\* and it answers with an apology when that collaborator fails.
SameDispatchAsLoop ==
    (inp.fn = "dispatch" /\ ~out.pending) =>
        /\ out.app.branches = out.loop.branches
        /\ Invoked(out.app.calls) = Invoked(out.loop.calls)
        /\ (out.loop.calls # <<>> /\ out.env.collab = "fails") =>
              out.app.response = <<"I encountered an error processing that request.">>

----------------------------------------------------------------------------
(* SpecNormalize: preprocess_text applied to a text, and to its own result *)

MaxLen == 3         \* symbols of an input text

NormSymbols == {"Tell", "I'm", " ", "\t", "."}

\* all texts of at most n symbols
TextsUpTo(symbols, n) == UNION {[1..k -> symbols] : k \in 0..n}

InitNormalize ==
    /\ inp \in [fn : {"preprocess_text"}, text : TextsUpTo(NormSymbols, MaxLen)]
    /\ out = [pending |-> TRUE]
    /\ LoopIdle /\ AppIdle /\ GhostIdle

ApplyNormalize ==
    /\ inp.fn = "preprocess_text" /\ out.pending
    /\ out' = [pending |-> FALSE,
               once  |-> preprocess_text(inp.text),
               twice |-> preprocess_text(preprocess_text(inp.text))]
    /\ UNCHANGED <<inp, prog, pc, loop_history, turn, turns,
                   conversation_history, tasks, running, arrived>>

NextNormalize == ApplyNormalize

SpecNormalize == InitNormalize /\ [][NextNormalize]_vars

\* C14: preprocess_text is idempotent:
\* preprocess_text(preprocess_text(x)) = preprocess_text(x) for every x.
PreprocessIdempotent ==
    (inp.fn = "preprocess_text" /\ ~out.pending) => out.twice = out.once

----------------------------------------------------------------------------
(* SpecEmpty: the classifiers applied to an empty or whitespace-only text *)

BlankTexts == TextsUpTo({" ", "\t"}, MaxLen)

InitEmpty ==
    /\ inp \in [fn : {"blank"}, text : BlankTexts, history : ContextHistories]
    /\ out = [pending |-> TRUE]
    /\ LoopIdle /\ AppIdle /\ GhostIdle

ApplyEmpty ==
    /\ inp.fn = "blank" /\ out.pending
    /\ \E ext, extLast \in ExtContext :
          /\ inp.history # <<>> =>
                SameModels(inp.text, ext, inp.history[Len(inp.history)], extLast)
          /\ out' = [pending |-> FALSE,
                     pre    |-> preprocess_text(inp.text),
                     hybrid |-> get_intent_hybrid(inp.text, ext),
                     ret    |-> get_intent_with_context(inp.text, inp.history, ext, extLast)]
    /\ UNCHANGED <<inp, prog, pc, loop_history, turn, turns,
                   conversation_history, tasks, running, arrived>>

NextEmpty == ApplyEmpty

SpecEmpty == InitEmpty /\ [][NextEmpty]_vars

\* C15: for every empty or whitespace-only input preprocess_text returns the
\* empty string, and get_intent_hybrid and get_intent_with_context, with any
\* history, return intent unknown with confidence 0.0.
BlankInputUnknown ==
    (inp.fn = "blank" /\ ~out.pending) =>
        /\ out.pre = <<>>
        /\ out.hybrid.intent = "unknown" /\ out.hybrid.confidence = 0
        /\ out.ret.intent = "unknown" /\ out.ret.confidence = 0

\* a blank text after a search turn: the previous intent has follow-up
\* triggers, none of which is in the text
BlankInputWitness ==
    /\ inp.fn = "blank" /\ ~out.pending
    /\ Len(inp.text) = 2 /\ inp.history # <<>>
    /\ out.ret.last_intent = "search_google"
    /\ out.ret.intent = "unknown" /\ out.ret.confidence = 0

----------------------------------------------------------------------------
(* nlp_processor.py: calculate_similarity_score *)

\* str.split(): the maximal runs of symbols that are not whitespace
RECURSIVE SplitRuns(_, _)
SplitRuns(text, run) ==
    IF text = <<>> THEN (IF run = <<>> THEN {} ELSE {run})
    ELSE IF IsSpace(Head(text))
         THEN (IF run = <<>> THEN {} ELSE {run}) \cup SplitRuns(Tail(text), <<>>)
         ELSE SplitRuns(Tail(text), Append(run, Head(text)))

\* set(text.lower().split())
WordSet(text) == SplitRuns(LowerText(text), <<>>)

\* len(intersection) / len(union), in hundredths
Jaccard(text_words, pattern_words) ==
    (100 * Cardinality(text_words \cap pattern_words))
        \div Cardinality(text_words \cup pattern_words)

\* the two bonuses; ratio is difflib's SequenceMatcher ratio of the two
\* lower-cased strings, in hundredths
Bonuses(text, pattern, ratio) ==
    (IF Contains(LowerText(text), LowerText(pattern)) THEN 30 ELSE 0)
      + (IF ratio > 70 THEN (ratio * 20) \div 100 ELSE 0)

PatternScore_mut(text, pattern, ratio) == Bonuses(text, pattern, ratio)

\* lines 365-381: jaccard_score of one pattern; 0 stands for a pattern that
\* is skipped because the union of the word sets is empty
PatternScore(text, pattern, ratio) ==
    IF WordSet(text) \cup WordSet(pattern) = {} THEN 0
    ELSE Jaccard(WordSet(text), WordSet(pattern)) + Bonuses(text, pattern, ratio)

\* max_score over the patterns from position i on
RECURSIVE MaxScore(_, _, _, _, _)
MaxScore(text, patterns, ratios, i, max_score) ==
    IF i > Len(patterns) THEN max_score
    ELSE MaxScore(text, patterns, ratios, i + 1,
                  Max(max_score, PatternScore(text, patterns[i], ratios[i])))

\* ratios[i]: the SequenceMatcher ratio of text and patterns[i]
calculate_similarity_score(text, patterns, ratios) ==
    IF text = <<>> \/ patterns = <<>> THEN 0
    ELSE MaxScore(text, patterns, ratios, 1, 0)

(* SpecScore: calculate_similarity_score on a text and a pattern list *)

ScoreSymbols == {"Tell", "me", " "}

ScoreTexts == TextsUpTo(ScoreSymbols, MaxLen)

\* the pattern lists: none, the text itself, and lists of catalog-like phrases
PatternLists(text) ==
    { <<>>, <<text>>, << <<"tell", " ", "me">> >>,
      << <<"me">>, <<"tell", " ", "me">> >>, << <<" ">> >> }

\* SequenceMatcher.ratio() is 1.0 exactly for equal strings
RatioLevels == {0, 70, 71, 100}
Ratios(text, patterns) ==
    {r \in [DOMAIN patterns -> RatioLevels] :
        \A i \in DOMAIN patterns :
            r[i] = 100 <=> LowerText(text) = LowerText(patterns[i])}

InitScore ==
    /\ \E text \in ScoreTexts : \E patterns \in PatternLists(text) :
          inp = [fn |-> "calculate_similarity_score", text |-> text, patterns |-> patterns]
    /\ out = [pending |-> TRUE]
    /\ LoopIdle /\ AppIdle /\ GhostIdle

ApplyScore ==
    /\ inp.fn = "calculate_similarity_score" /\ out.pending
    /\ \E ratios \in Ratios(inp.text, inp.patterns) :
          out' = [pending |-> FALSE, ratios |-> ratios,
                  ret |-> calculate_similarity_score(inp.text, inp.patterns, ratios)]
    /\ UNCHANGED <<inp, prog, pc, loop_history, turn, turns,
                   conversation_history, tasks, running, arrived>>

NextScore == ApplyScore

SpecScore == InitScore /\ [][NextScore]_vars

\* C16 as stated: the score of any text against no pattern is 0, the score
\* of the empty text is 0, and the score of every non-empty text against
\* itself as sole pattern is at least 1.0.
ScoreBounds ==
    (inp.fn = "calculate_similarity_score" /\ ~out.pending) =>
        /\ inp.patterns = <<>> => out.ret = 0
        /\ inp.text = <<>> => out.ret = 0
        /\ (inp.text # <<>> /\ inp.patterns = <<inp.text>>) => out.ret >= 100

\* C16 amended: the third bound holds for every text that contains at least
\* one word, i.e. a character that is not whitespace.
ScoreBoundsWithWord ==
    (inp.fn = "calculate_similarity_score" /\ ~out.pending) =>
        /\ inp.patterns = <<>> => out.ret = 0
        /\ inp.text = <<>> => out.ret = 0
        /\ ((\E i \in DOMAIN inp.text : ~IsSpace(inp.text[i]))
               /\ inp.patterns = <<inp.text>>) => out.ret >= 100

\* "Tell me" against itself: Jaccard 1, substring bonus, fuzzy bonus
ScoreBoundsWitness ==
    /\ inp.fn = "calculate_similarity_score" /\ ~out.pending
    /\ inp.text = <<"Tell", " ", "me">> /\ inp.patterns = <<inp.text>>
    /\ out.ret = 150

----------------------------------------------------------------------------
(* SpecEntities: extract_entities on a text, with and without the spaCy model *)

EntitySymbols == {"search", "python", " ", "at", "10:30", "am"}

EntityTexts ==
    TextsUpTo(EntitySymbols, MaxLen)
      \cup { <<"search", " ", "for", " ", "python">>,
             <<"google", " ", "search", " ", "python">>,
             <<"at", " ", "10:30", " ", "am">>,
             <<"10", " ", "am", " ", "at", " ", "10:30">> }

InitEntities ==
    /\ inp \in [fn : {"extract_entities"}, text : EntityTexts, nlp : BOOLEAN]
    /\ out = [pending |-> TRUE]
    /\ LoopIdle /\ AppIdle /\ GhostIdle

\* search_hits and alarm_hits record what the patterns of lines 328-352
\* find in the text, and where
ApplyEntities ==
    /\ inp.fn = "extract_entities" /\ out.pending
    /\ \E ner \in NerSets :
          out' = [pending     |-> FALSE,
                  ner         |-> ner,
                  search_hits |-> SearchHits(inp.text),
                  alarm_hits  |-> AllAlarmHits(inp.text),
                  ret         |-> extract_entities(inp.text, inp.nlp, ner)]
    /\ UNCHANGED <<inp, prog, pc, loop_history, turn, turns,
                   conversation_history, tasks, running, arrived>>

NextEntities == ApplyEntities

SpecEntities == InitEntities /\ [][NextEntities]_vars

\* C17: without the spaCy model extract_entities only leaves the location
\* and time lists empty: for a text with a trigger keyword followed by
\* further words the search_query list still holds the text after the
\* keyword, and the alarm_time matches are still extracted.
PatternsKeptWithoutModel ==
    (inp.fn = "extract_entities" /\ ~out.pending /\ ~inp.nlp) =>
        /\ out.ret.location = <<>> /\ out.ret.time = <<>>
        /\ \A i \in DOMAIN out.search_hits :
              out.search_hits[i].value # <<>> =>
                  out.search_hits[i].value \in Range(out.ret.search_query)
        /\ out.ret.alarm_time = Values(out.alarm_hits)

\* C18 as stated: in every list the values appear in the order in which
\* they are found in the text, left to right, and every occurrence is kept.
EntitiesInTextOrder ==
    (inp.fn = "extract_entities" /\ ~out.pending /\ inp.nlp) =>
        /\ out.ret.search_query = Values(out.search_hits)
        /\ out.ret.alarm_time = Values(out.alarm_hits)
        /\ \A i, j \in DOMAIN out.search_hits :
              i < j => out.search_hits[i].at <= out.search_hits[j].at
        /\ \A i, j \in DOMAIN out.alarm_hits :
              i < j => out.alarm_hits[i].at <= out.alarm_hits[j].at

----------------------------------------------------------------------------
(* rag_system.py: AssistantRAG.retrieve_context *)

\* A section of the knowledge base is [name, name_len, fields]: the header,
\* its length in characters, and the content lines; a field is
\* [words, len]: the set of its words and its length in characters.  Strings
\* are represented by their lengths.

RECURSIVE SumSeq(_)
SumSeq(ns) == IF ns = <<>> THEN 0 ELSE Head(ns) + SumSeq(Tail(ns))

\* len(" ".join(content_list))
ContentLen(fields) ==
    IF fields = <<>> THEN 0
    ELSE SumSeq([i \in DOMAIN fields |-> fields[i].len]) + (Len(fields) - 1)

\* len(f"{item['section']}: {item['content']}")
SectionTextLen(section) == section.name_len + 2 + ContentLen(section.fields)

ContentWords(fields) == UNION {fields[i].words : i \in DOMAIN fields}

\* _calculate_relevance_score as the fraction <<numerator, denominator>>
calculate_relevance_score(query_words, content_words) ==
    IF query_words = {} THEN <<0, 1>>
    ELSE <<Cardinality(query_words \cap content_words),
           Cardinality(query_words \cup content_words)>>

ScoreGreater(a, b) == a[1] * b[2] > b[1] * a[2]

\* lines 74-83: the sections with a positive score, in dict order
RECURSIVE Scored(_, _)
Scored(sections, query_words) ==
    IF sections = <<>> THEN <<>>
    ELSE (IF calculate_relevance_score(query_words, ContentWords(Head(sections).fields))[1] > 0
          THEN << [section |-> Head(sections),
                   score |-> calculate_relevance_score(query_words,
                                                       ContentWords(Head(sections).fields))] >>
          ELSE <<>>)
         \o Scored(Tail(sections), query_words)

\* list.sort(key=score, reverse=True): stable, equal scores keep their order
RECURSIVE InsertByScore(_, _)
InsertByScore(sorted, item) ==
    IF sorted = <<>> THEN <<item>>
    ELSE IF ScoreGreater(item.score, Head(sorted).score)
         THEN <<item>> \o sorted
         ELSE <<Head(sorted)>> \o InsertByScore(Tail(sorted), item)

RECURSIVE SortByScore(_)
SortByScore(items) ==
    IF items = <<>> THEN <<>>
    ELSE InsertByScore(SortByScore(SubSeq(items, 1, Len(items) - 1)), items[Len(items)])

\* if remaining_space > 50
MeaningfulSpace == 50

\* lines 92-104: the parts appended from item i on.  A part is the section,
\* the number of characters kept of its text, and whether "..." was added
RECURSIVE BuildParts(_, _, _, _)
BuildParts(items, i, max_context_length, current_length) ==
    IF i > Len(items) THEN <<>>
    ELSE IF current_length + SectionTextLen(items[i].section) <= max_context_length
    THEN << [section |-> items[i].section.name,
             kept |-> SectionTextLen(items[i].section), cut |-> FALSE] >>
            \o BuildParts(items, i + 1, max_context_length,
                          current_length + SectionTextLen(items[i].section))
    ELSE IF max_context_length - current_length > MeaningfulSpace
    THEN << [section |-> items[i].section.name,
             kept |-> max_context_length - current_length, cut |-> TRUE] >>
    ELSE <<>>

\* len(" | ".join(context_parts))
JoinedLen(parts) ==
    IF parts = <<>> THEN 0
    ELSE SumSeq([i \in DOMAIN parts |-> parts[i].kept + (IF parts[i].cut THEN 3 ELSE 0)])
            + 3 * (Len(parts) - 1)

Context(ranked, parts) ==
    [ranked |-> [i \in DOMAIN ranked |-> ranked[i].section.name],
     parts  |-> parts,
     length |-> JoinedLen(parts)]

\* retrieve_context: the parts of the returned string and its length
retrieve_context(knowledge_sections, query_words, max_context_length) ==
    IF knowledge_sections = <<>> THEN Context(<<>>, <<>>)
    ELSE Context(SortByScore(Scored(knowledge_sections, query_words)),
                 BuildParts(SortByScore(Scored(knowledge_sections, query_words)),
                            1, max_context_length, 0))

(* SpecRag: retrieve_context on a knowledge base, a query and a budget *)

SectionPool ==
    { [name |-> "Identity", name_len |-> 8,
       fields |-> << [words |-> {"ashley"}, len |-> 20],
                     [words |-> {"assistant"}, len |-> 29] >>],
      [name |-> "Weather", name_len |-> 7,
       fields |-> << [words |-> {"weather"}, len |-> 21] >>],
      [name |-> "Functions", name_len |-> 9,
       fields |-> << [words |-> {"ashley", "weather"}, len |-> 36],
                     [words |-> {"alarm"}, len |-> 32] >>] }

\* the knowledge bases: the sections of a subset of the pool, in any order
KnowledgeBases ==
    {kb \in UNION {[1..n -> SectionPool] : n \in 0..Cardinality(SectionPool)} :
        \A i, j \in DOMAIN kb : i # j => kb[i] # kb[j]}

Queries == { {}, {"music"}, {"ashley"}, {"weather"}, {"ashley", "weather"} }

Budgets == {0, 30, 50, 90, 100, 112, 140, 500}

InitRag ==
    /\ inp \in [fn : {"retrieve_context"}, knowledge_sections : KnowledgeBases,
                query_words : Queries, max_context_length : Budgets]
    /\ out = [pending |-> TRUE]
    /\ LoopIdle /\ AppIdle /\ GhostIdle

ApplyRag ==
    /\ inp.fn = "retrieve_context" /\ out.pending
    /\ out' = [pending |-> FALSE,
               ret |-> retrieve_context(inp.knowledge_sections, inp.query_words,
                                        inp.max_context_length)]
    /\ UNCHANGED <<inp, prog, pc, loop_history, turn, turns,
                   conversation_history, tasks, running, arrived>>

NextRag == ApplyRag

SpecRag == InitRag /\ [][NextRag]_vars

\* C19: retrieve_context never returns a string longer than
\* max_context_length characters.
ContextWithinBudget ==
    (inp.fn = "retrieve_context" /\ ~out.pending) =>
        out.ret.length <= inp.max_context_length

\* the lengths of section_text at which a field ends
FieldEnds(section) ==
    {section.name_len + 2 + ContentLen(SubSeq(section.fields, 1, k)) :
        k \in 1..Len(section.fields)}

SectionNamed(knowledge_sections, name) ==
    CHOOSE s \in Range(knowledge_sections) : s.name = name

\* C20: whenever a relevant section is shortened or left out because the
\* next ranked section does not fit the remaining budget, the returned
\* context ends with "...", and a shortened section is cut at a field
\* boundary.
TruncationMarkedAndClean ==
    (/\ inp.fn = "retrieve_context" /\ ~out.pending
     /\ Len(out.ret.ranked) > Cardinality({i \in DOMAIN out.ret.parts : ~out.ret.parts[i].cut})) =>
        /\ out.ret.parts # <<>>
        /\ out.ret.parts[Len(out.ret.parts)].cut
        /\ \A i \in DOMAIN out.ret.parts :
              out.ret.parts[i].cut =>
                  out.ret.parts[i].kept
                      \in FieldEnds(SectionNamed(inp.knowledge_sections,
                                                 out.ret.parts[i].section))

-----------------------------------------------------------------------------
(* External requests: fallback_openrouter_gpt5 (nlp_processor.py 525-584)
   and get_openweather_data (weather_utils.py 21-39).  Both issue one
   requests call without a timeout argument, so the call returns only when
   the service replies or the connection fails. *)

MaxWait == 5        \* seconds of waiting that are told apart

RequestCalls == {"fallback_openrouter_gpt5", "get_openweather_data"}

\* what the weather service can do: a report, an error document
\* (cod # 200), a connection failure, a body that is not the expected JSON
WeatherOutcomes == {"report", "cod_error", "raises", "malformed"}

\* get_openweather_data: the report, or None
get_openweather_data(service) ==
    IF service = "report" THEN "report" ELSE "None"

RequestOutcomes(fn) ==
    IF fn = "fallback_openrouter_gpt5" THEN ServiceOutcomes ELSE WeatherOutcomes

RequestResult(fn, service) ==
    IF fn = "fallback_openrouter_gpt5" THEN fallback_openrouter_gpt5(service)
    ELSE get_openweather_data(service)

InitRequest ==
    /\ inp \in [fn : RequestCalls]
    /\ out = [pending |-> TRUE, at |-> "called", waited |-> 0, tick |-> 0,
              service |-> "none", result |-> "none"]
    /\ LoopIdle /\ AppIdle /\ GhostIdle

\* requests.post / requests.get is entered; no timeout is passed
SendRequest ==
    /\ out.at = "called"
    /\ out' = [out EXCEPT !.at = "blocked"]
    /\ UNCHANGED <<inp, prog, pc, loop_history, turn, turns,
                   conversation_history, tasks, running, arrived>>

\* time passes while the call waits for the service: a second more, which
\* is counted up to MaxWait; the clock ticks on without end
TimePasses ==
    /\ out.at = "blocked"
    /\ out' = [out EXCEPT !.waited = IF @ < MaxWait THEN @ + 1 ELSE @,
                          !.tick = 1 - @]
    /\ UNCHANGED <<inp, prog, pc, loop_history, turn, turns,
                   conversation_history, tasks, running, arrived>>

\* the service replies, or the connection fails
ServiceReplies ==
    /\ out.at = "blocked"
    /\ \E service \in RequestOutcomes(inp.fn) :
          out' = [out EXCEPT !.at = "replied", !.service = service]
    /\ UNCHANGED <<inp, prog, pc, loop_history, turn, turns,
                   conversation_history, tasks, running, arrived>>

\* the function returns the answer or None
ReturnResult ==
    /\ out.at = "replied"
    /\ out' = [out EXCEPT !.at = "returned", !.pending = FALSE,
                          !.result = RequestResult(inp.fn, out.service)]
    /\ UNCHANGED <<inp, prog, pc, loop_history, turn, turns,
                   conversation_history, tasks, running, arrived>>

NextRequest == SendRequest \/ TimePasses \/ ServiceReplies \/ ReturnResult

SpecRequest == InitRequest /\ [][NextRequest]_vars

\* The program's own steps and the clock are fair; the service owes nothing.
SpecRequestLive ==
    /\ InitRequest /\ [][NextRequest]_vars
    /\ WF_vars(SendRequest) /\ WF_vars(TimePasses) /\ WF_vars(ReturnResult)

\* C21: a call of the generative fallback or of the weather lookup always
\* completes: once the request is sent, the call eventually returns, with
\* None when the service never answers.
CallCompletes == [](out.at = "blocked" => <>(out.at = "returned"))

-----------------------------------------------------------------------------
(* Retry helpers: error_handler.retry (167-193) and
   ErrorRecovery.retry_on_failure (enhanced_logging.py 36-72), with their
   default settings.  Delays are in seconds. *)

max_attempts == 3       \* retry(max_attempts=3, ...)
delay == 1              \* retry(..., delay=1.0, ...)
max_retries == 3        \* ErrorRecovery(max_retries=3, ...)
backoff_factor == 1     \* ErrorRecovery(..., backoff_factor=1.0)

RetryHelpers == {"retry", "retry_on_failure"}

\* what one call of the wrapped function does: it returns, it raises one of
\* two Exceptions, or it raises KeyboardInterrupt (no Exception subclass)
FuncOutcomes == {"ok", "e1", "e2", "KeyboardInterrupt"}

Pow2(n) == IF n = 0 THEN 1 ELSE IF n = 1 THEN 2 ELSE IF n = 2 THEN 4 ELSE 8

\* range(max_attempts) and range(self.max_retries + 1)
Attempts(fn) == IF fn = "retry" THEN max_attempts ELSE max_retries + 1

\* time.sleep(delay) and time.sleep(backoff_factor * (2 ** attempt))
WaitTime(fn, attempt) ==
    IF fn = "retry" THEN delay ELSE backoff_factor * Pow2(attempt)

InitRetry ==
    /\ inp \in [fn : RetryHelpers]
    /\ out = [pending |-> TRUE, at |-> "call", attempt |-> 0, calls |-> <<>>,
              waits |-> <<>>, raised |-> "none"]
    /\ LoopIdle /\ AppIdle /\ GhostIdle

\* one pass of the try block: func is called; a result is returned, an error
\* outside the caught classes propagates, the last attempt's error is raised,
\* any other error leads to the sleep
RetryCall ==
    /\ out.at = "call"
    /\ \E r \in FuncOutcomes :
          out' = [out EXCEPT
                    !.calls = Append(@, r),
                    !.at = IF r = "ok" THEN "returned"
                           ELSE IF r = "KeyboardInterrupt" THEN "raised"
                           ELSE IF out.attempt = Attempts(inp.fn) - 1 THEN "raised"
                           ELSE "sleep",
                    !.pending = ~(r = "ok" \/ r = "KeyboardInterrupt"
                                  \/ out.attempt = Attempts(inp.fn) - 1),
                    !.raised = IF r = "KeyboardInterrupt"
                                  \/ (r # "ok" /\ out.attempt = Attempts(inp.fn) - 1)
                               THEN r ELSE "none"]
    /\ UNCHANGED <<inp, prog, pc, loop_history, turn, turns,
                   conversation_history, tasks, running, arrived>>

\* the sleep before the next attempt
RetrySleep ==
    /\ out.at = "sleep"
    /\ out' = [out EXCEPT !.waits = Append(@, WaitTime(inp.fn, out.attempt)),
                          !.attempt = @ + 1,
                          !.at = "call"]
    /\ UNCHANGED <<inp, prog, pc, loop_history, turn, turns,
                   conversation_history, tasks, running, arrived>>

NextRetry == RetryCall \/ RetrySleep

SpecRetry == InitRetry /\ [][NextRetry]_vars

\* C22: with the default settings a retry helper calls the wrapped function
\* at most 3 times in total, each wait between consecutive attempts is twice
\* the wait before it, and the error raised after the final failed attempt is
\* the last error of the wrapped function.
RetriesBounded ==
    /\ Len(out.calls) <= 3
    /\ \A i \in 1..(Len(out.waits) - 1) : out.waits[i + 1] = 2 * out.waits[i]
    /\ out.at = "raised" => out.raised = out.calls[Len(out.calls)]

-----------------------------------------------------------------------------
(* alarm.py: parse_voice_time and set_alarm_voice; main.py: alarm().
   A voice input is a sequence of symbols: words, whitespace, ":", runs of
   one or two digits, and date literals.  A datetime is a record of day
   number, hour, minute and second in the IST zone, which has no clock
   changes. *)

AlarmNums == {"0", "3", "5", "12", "13", "00", "30", "75"}

NumValue(sym) ==
    CASE sym \in {"0", "00"} -> 0
      [] sym = "3"  -> 3
      [] sym = "5"  -> 5
      [] sym = "12" -> 12
      [] sym = "13" -> 13
      [] sym = "30" -> 30
      [] OTHER      -> 75

TwoDigits(sym) == sym \in {"12", "13", "00", "30", "75"}

\* date literals: the day before the current day, the current day, the day
\* after, and a literal that names no calendar day
AlarmDates == {"2026-11-05", "2026-11-06", "2026-11-07", "2026-13-05"}

ValidDate(sym) == sym # "2026-13-05"

DateDay(sym) ==
    CASE sym = "2026-11-05" -> 0
      [] sym = "2026-11-06" -> 1
      [] OTHER               -> 2

\* the value of the last two digits of a date literal
DateTail(sym) ==
    CASE sym = "2026-11-06" -> 6
      [] sym = "2026-11-07" -> 7
      [] OTHER               -> 5

NoTime == [kind |-> "none", day |-> 0, hour |-> 0, minute |-> 0, second |-> 0]

\* an exception leaving the function
RaisedTime == [kind |-> "raise", day |-> 0, hour |-> 0, minute |-> 0, second |-> 0]

DateTime(day, hour, minute, second) ==
    [kind |-> "time", day |-> day, hour |-> hour, minute |-> minute,
     second |-> second]

\* seconds since the start of day 0: the order of datetimes
Stamp(dt) == ((dt.day * 24 + dt.hour) * 60 + dt.minute) * 60 + dt.second

FromStamp(s) ==
    DateTime(s \div 86400, (s \div 3600) % 24, (s \div 60) % 60, s % 60)

\* dt + timedelta(seconds=n)
PlusSeconds(dt, n) == FromStamp(Stamp(dt) + n)

\* now.replace(hour=hour, minute=minute, second=0, microsecond=0), which
\* raises ValueError outside 0..23 and 0..59
Replace(dt, hour, minute) ==
    IF hour > 23 \/ minute > 59 THEN RaisedTime
    ELSE DateTime(dt.day, hour, minute, 0)

\* the conversion of a 12-hour clock reading
To24(hour, period) ==
    IF period = "pm" /\ hour # 12 THEN hour + 12
    ELSE IF period = "am" /\ hour = 12 THEN 0
    ELSE hour

\* (am|pm) after \s*, from position j on: the position of the period, or 0
AmPmAfter(text, j) ==
    IF j + SpaceRun(Suffix(text, j)) <= Len(text)
       /\ text[j + SpaceRun(Suffix(text, j))] \in {"am", "pm"}
    THEN j + SpaceRun(Suffix(text, j)) ELSE 0

NoClock == [found |-> FALSE, hour |-> 0, minute |-> 0, period |-> "", end |-> 0]

Clock(hour, minute, text, k) ==
    [found |-> TRUE, hour |-> hour, minute |-> minute, period |-> text[k],
     end |-> k]

\* (\d{1,2}):?(\d{2})?\s*(am|pm) matched with its digits starting in symbol i
ClockAt(text, i) ==
    IF ~(text[i] \in AlarmNums \/ text[i] \in AlarmDates) THEN NoClock
    ELSE IF i + 2 <= Len(text) /\ text[i + 1] = ":" /\ TwoDigits(text[i + 2])
            /\ AmPmAfter(text, i + 3) # 0
    THEN Clock(IF text[i] \in AlarmNums THEN NumValue(text[i]) ELSE DateTail(text[i]),
               NumValue(text[i + 2]), text, AmPmAfter(text, i + 3))
    ELSE IF i + 1 <= Len(text) /\ text[i + 1] = ":" /\ AmPmAfter(text, i + 2) # 0
    THEN Clock(IF text[i] \in AlarmNums THEN NumValue(text[i]) ELSE DateTail(text[i]),
               0, text, AmPmAfter(text, i + 2))
    ELSE IF AmPmAfter(text, i + 1) # 0
    THEN Clock(IF text[i] \in AlarmNums THEN NumValue(text[i]) ELSE DateTail(text[i]),
               0, text, AmPmAfter(text, i + 1))
    ELSE NoClock

\* re.search: the leftmost match, from position i on
RECURSIVE ClockSearch(_, _)
ClockSearch(text, i) ==
    IF i > Len(text) THEN NoClock
    ELSE IF ClockAt(text, i).found THEN ClockAt(text, i)
    ELSE ClockSearch(text, i + 1)

\* (\d{4}-\d{2}-\d{2})\s+(\d{1,2}):(\d{2})\s*(am|pm) with the date in symbol i
DatedClockAt(text, i) ==
    /\ text[i] \in AlarmDates
    /\ SpaceRun(Suffix(text, i + 1)) >= 1
    /\ i + SpaceRun(Suffix(text, i + 1)) + 3 <= Len(text)
    /\ text[i + SpaceRun(Suffix(text, i + 1)) + 1] \in AlarmNums
    /\ text[i + SpaceRun(Suffix(text, i + 1)) + 2] = ":"
    /\ TwoDigits(text[i + SpaceRun(Suffix(text, i + 1)) + 3])
    /\ AmPmAfter(text, i + SpaceRun(Suffix(text, i + 1)) + 4) # 0

RECURSIVE DatedClockSearch(_, _)
DatedClockSearch(text, i) ==
    IF i > Len(text) THEN 0
    ELSE IF DatedClockAt(text, i) THEN i
    ELSE DatedClockSearch(text, i + 1)

\* ^(\d{1,2}):(\d{2})\s*(am|pm)$
TimeOnly(text) ==
    /\ Len(text) >= 4
    /\ text[1] \in AlarmNums /\ text[2] = ":" /\ TwoDigits(text[3])
    /\ AmPmAfter(text, 4) = Len(text)

\* in\s+(\d+)\s*minutes? (unit "minute") or in\s+(\d+)\s*hours? (unit "hour")
\* with "in" in symbol i: the position of the number, or 0
InAt(text, i, unit) ==
    IF /\ text[i] = "in"
       /\ SpaceRun(Suffix(text, i + 1)) >= 1
       /\ i + SpaceRun(Suffix(text, i + 1)) + 1 <= Len(text)
       /\ text[i + SpaceRun(Suffix(text, i + 1)) + 1] \in AlarmNums
       /\ i + SpaceRun(Suffix(text, i + 1)) + 2
            + SpaceRun(Suffix(text, i + SpaceRun(Suffix(text, i + 1)) + 2))
          <= Len(text)
       /\ text[i + SpaceRun(Suffix(text, i + 1)) + 2
               + SpaceRun(Suffix(text, i + SpaceRun(Suffix(text, i + 1)) + 2))]
          \in (IF unit = "minute" THEN {"minute", "minutes"} ELSE {"hour", "hours"})
    THEN i + SpaceRun(Suffix(text, i + 1)) + 1 ELSE 0

RECURSIVE InSearch(_, _, _)
InSearch(text, i, unit) ==
    IF i > Len(text) THEN 0
    ELSE IF InAt(text, i, unit) # 0 THEN InAt(text, i, unit)
    ELSE InSearch(text, i + 1, unit)

\* `word in voice_input`; no other symbol of the inputs contains the word
HasWord(text, word) == \E i \in DOMAIN text : text[i] = word

\* lines 112-128: the date literal at symbol i with its clock reading;
\* strptime raises ValueError, which is caught, for a date or a reading
\* that does not exist
DatedTime(text, i, h) ==
    IF ~ValidDate(text[i])
       \/ To24(NumValue(text[h]), text[AmPmAfter(text, h + 3)]) > 23
       \/ NumValue(text[h + 2]) > 59
    THEN NoTime
    ELSE DateTime(DateDay(text[i]),
                  To24(NumValue(text[h]), text[AmPmAfter(text, h + 3)]),
                  NumValue(text[h + 2]), 0)

RollForward_mut(alarm_time, now) == alarm_time

\* lines 160-166 and 192-198: the reading on the current day, moved to the
\* next day when it is not after now
RollForward(alarm_time, now) ==
    IF alarm_time.kind = "raise" THEN alarm_time
    ELSE IF Stamp(alarm_time) <= Stamp(now)
    THEN [alarm_time EXCEPT !.day = @ + 1]
    ELSE alarm_time

TodayOrTomorrow(m, now) ==
    RollForward(Replace(now, To24(m.hour, m.period), m.minute), now)

\* lines 143-145
Tomorrow(m, now) ==
    Replace([now EXCEPT !.day = @ + 1], To24(m.hour, m.period), m.minute)

\* patterns 3 to 6, tried in this order
ParseFromToday(text, now) ==
    IF (HasWord(text, "today") \/ HasWord(text, "at"))
       /\ ClockSearch(text, 1).found
    THEN TodayOrTomorrow(ClockSearch(text, 1), now)
    ELSE IF InSearch(text, 1, "minute") # 0
    THEN PlusSeconds(now, 60 * NumValue(text[InSearch(text, 1, "minute")]))
    ELSE IF InSearch(text, 1, "hour") # 0
    THEN PlusSeconds(now, 3600 * NumValue(text[InSearch(text, 1, "hour")]))
    ELSE IF TimeOnly(text)
    THEN TodayOrTomorrow(Clock(NumValue(text[1]), NumValue(text[3]), text,
                               Len(text)), now)
    ELSE NoTime

ParseLowered(text, now) ==
    IF DatedClockSearch(text, 1) # 0
    THEN DatedTime(text, DatedClockSearch(text, 1),
                   DatedClockSearch(text, 1)
                     + SpaceRun(Suffix(text, DatedClockSearch(text, 1) + 1)) + 1)
    ELSE IF HasWord(text, "tomorrow") /\ ClockSearch(text, 1).found
    THEN Tomorrow(ClockSearch(text, 1), now)
    ELSE ParseFromToday(text, now)

\* parse_voice_time, with the value datetime.now(IST) takes inside it
parse_voice_time(voice_input, now) ==
    ParseLowered(LowerText(Strip(voice_input)), now)

-----------------------------------------------------------------------------
(* SpecParseTime: parse_voice_time applied to one voice input at one
   current time *)

ClockPrefixes ==
    { <<>>, <<"at", " ">>, <<"today", " ">>, <<"Today", " ", "at", " ">> }

ClockHours == {"0", "3", "12", "13"}
ClockMinutes == {"00", "30", "75"}
ClockGaps == { <<>>, <<" ">> }
ClockPeriods == {"am", "pm", "PM"}

ClockText(prefix, h, m, gap, period) ==
    prefix \o <<h, ":", m>> \o gap \o <<period>>

ClockTexts ==
    { ClockText(prefix, h, m, gap, period) :
        prefix \in ClockPrefixes, h \in ClockHours, m \in ClockMinutes,
        gap \in ClockGaps, period \in ClockPeriods }

\* inputs of the other patterns, and inputs no pattern matches
OtherTexts ==
    { <<"tomorrow", " ", "at", " ", "3", " ", "pm">>,
      <<"tomorrow">>,
      <<"in", " ", "5", " ", "minutes">>,
      <<"in", " ", "0", " ", "minutes">>,
      <<"in", " ", "3", " ", "hours">>,
      <<"2026-11-05", " ", "3", ":", "00", " ", "pm">>,
      <<"2026-11-07", " ", "12", ":", "30", " ", "am">>,
      <<"2026-13-05", " ", "3", ":", "00", " ", "pm">>,
      <<"3", " ", "pm">>,
      <<" ", "at", " ", "5", "pm", " ">> }

\* the values of datetime.now(IST): times of the current day (day 1)
Nows ==
    { DateTime(1, h, m, s) : h \in {0, 3, 15, 23}, m \in {0, 30}, s \in {0, 20} }

InitParseTime ==
    /\ inp \in [fn : {"parse_voice_time"}, voice_input : ClockTexts \cup OtherTexts,
                now : Nows]
    /\ out = [pending |-> TRUE]
    /\ LoopIdle /\ AppIdle /\ GhostIdle

ApplyParseTime ==
    /\ inp.fn = "parse_voice_time" /\ out.pending
    /\ out' = [pending |-> FALSE,
               result |-> parse_voice_time(inp.voice_input, inp.now)]
    /\ UNCHANGED <<inp, prog, pc, loop_history, turn, turns,
                   conversation_history, tasks, running, arrived>>

NextParseTime == ApplyParseTime

SpecParseTime == InitParseTime /\ [][NextParseTime]_vars

\* the clock time h:m period on the day of dt
Reading(dt, h, m, period) ==
    DateTime(dt.day, To24(NumValue(h), Lower(period)), NumValue(m), 0)

\* a reading of the 12-hour clock
IsClockTime(h, m) == NumValue(h) \in 1..12 /\ NumValue(m) \in 0..59

\* C23: parse_voice_time applied to a bare clock time "H:MM am/pm", also
\* when introduced by "today" or "at", that is not later than the current
\* time returns that clock time on the next calendar day, which is later
\* than the current time.
PastClockRollsToNextDay ==
    (inp.fn = "parse_voice_time" /\ ~out.pending) =>
        \A prefix \in ClockPrefixes, h \in ClockHours, m \in ClockMinutes,
           gap \in ClockGaps, period \in ClockPeriods :
            ( /\ inp.voice_input = ClockText(prefix, h, m, gap, period)
              /\ IsClockTime(h, m)
              /\ Stamp(Reading(inp.now, h, m, period)) <= Stamp(inp.now) )
            => /\ out.result =
                    [Reading(inp.now, h, m, period) EXCEPT !.day = inp.now.day + 1]
               /\ Stamp(out.result) > Stamp(inp.now)

\* "3:00 pm" parsed at 15:00:20 of day 1 gives 15:00 of day 2
PastClockWitness ==
    /\ inp.fn = "parse_voice_time" /\ ~out.pending
    /\ inp.voice_input = <<"3", ":", "00", " ", "pm">>
    /\ inp.now = DateTime(1, 15, 0, 20)
    /\ out.result = DateTime(2, 15, 0, 0)

-----------------------------------------------------------------------------
(* SpecSetAlarm: the two ways of setting an alarm, set_alarm_voice
   (alarm.py 297-325) and the typed path alarm() (main.py 29-42) *)

PastMessage == "That time is in the past. Please specify a future time."

\* what create_event meets: the event is inserted, or the calendar fails
CalendarOutcomes == {"inserted", "fails"}

\* create_event: the event inserted into the calendar, if any
create_event(start_time, calendar) ==
    IF calendar = "inserted" THEN start_time ELSE NoTime

AlarmResult(returns, spoken, event) ==
    [pending |-> FALSE, returns |-> returns, spoken |-> spoken, event |-> event]

\* lines 302-320, with the time parsed and the second reading of the clock
SetParsed(parsed_time, now, calendar) ==
    IF parsed_time.kind = "raise"
    THEN AlarmResult(FALSE, <<"An error occurred while setting the alarm.">>, NoTime)
    ELSE IF parsed_time.kind = "none"
    THEN AlarmResult(FALSE, <<"I couldn't understand the time. Try saying 'tomorrow at 10 AM' or 'in 30 minutes'.">>, NoTime)
    ELSE IF Stamp(parsed_time) <= Stamp(now)
    THEN AlarmResult(FALSE, <<PastMessage>>, NoTime)
    ELSE IF calendar = "inserted"
    THEN AlarmResult(TRUE, <<"Alarm set">>, create_event(parsed_time, calendar))
    ELSE AlarmResult(FALSE, <<"Failed to create alarm. Please try again.">>, NoTime)

\* set_alarm_voice; `elapsed` seconds pass between the two clock readings
set_alarm_voice(voice_input, now, elapsed, calendar) ==
    SetParsed(parse_voice_time(voice_input, now), PlusSeconds(now, elapsed),
              calendar)

\* datetime.strptime(text, "%Y-%m-%d %I:%M %p") accepts the text: a date
\* that exists, whitespace, an hour from 1 to 12, ":", a minute below 60,
\* whitespace, AM or PM in either case, and nothing else
StrptimeAccepts(text) ==
    /\ Len(text) >= 6
    /\ text[1] \in AlarmDates /\ ValidDate(text[1])
    /\ SpaceRun(Suffix(text, 2)) >= 1
    /\ SpaceRun(Suffix(text, 2)) + 5 <= Len(text)
    /\ text[SpaceRun(Suffix(text, 2)) + 2] \in {"3", "5", "12"}
    /\ text[SpaceRun(Suffix(text, 2)) + 3] = ":"
    /\ text[SpaceRun(Suffix(text, 2)) + 4] \in {"0", "3", "5", "00", "30"}
    /\ SpaceRun(Suffix(text, SpaceRun(Suffix(text, 2)) + 5)) >= 1
    /\ AmPmAfter(LowerText(text), SpaceRun(Suffix(text, 2)) + 5) = Len(text)

\* the naive datetime strptime returns, which create_event places in IST
Strptime(text) ==
    DateTime(DateDay(text[1]),
             To24(NumValue(text[SpaceRun(Suffix(text, 2)) + 2]), Lower(text[Len(text)])),
             NumValue(text[SpaceRun(Suffix(text, 2)) + 4]), 0)

\* alarm(query): the result of create_event is not looked at
alarm(query, calendar) ==
    IF StrptimeAccepts(Strip(query))
    THEN AlarmResult(TRUE, <<"Alarm set">>,
                     create_event(Strptime(Strip(query)), calendar))
    ELSE AlarmResult(FALSE, <<"Time format error. Use YYYY-MM-DD HH:MM AM/PM">>,
                     NoTime)

DatedTexts ==
    { <<d, " ", h, ":", m>> \o gap \o <<period>> :
        d \in AlarmDates, h \in {"3", "12"}, m \in {"00", "30"},
        gap \in ClockGaps, period \in ClockPeriods }

SetAlarmTexts ==
    DatedTexts \cup OtherTexts
      \cup { <<"3", ":", "00", " ", "pm">>, <<"at", " ", "12", ":", "30", "am">>,
             <<"13", ":", "00", " ", "pm">> }

InitSetAlarm ==
    /\ inp \in [fn : {"set_alarm_voice", "alarm"}, text : SetAlarmTexts,
                now : Nows, elapsed : {0, 60}, calendar : CalendarOutcomes]
    /\ out = [pending |-> TRUE]
    /\ LoopIdle /\ AppIdle /\ GhostIdle

SetAlarmVoice ==
    /\ inp.fn = "set_alarm_voice" /\ out.pending
    /\ out' = set_alarm_voice(inp.text, inp.now, inp.elapsed, inp.calendar)
    /\ UNCHANGED <<inp, prog, pc, loop_history, turn, turns,
                   conversation_history, tasks, running, arrived>>

TypedAlarm ==
    /\ inp.fn = "alarm" /\ out.pending
    /\ out' = alarm(inp.text, inp.calendar)
    /\ UNCHANGED <<inp, prog, pc, loop_history, turn, turns,
                   conversation_history, tasks, running, arrived>>

NextSetAlarm == SetAlarmVoice \/ TypedAlarm

SpecSetAlarm == InitSetAlarm /\ [][NextSetAlarm]_vars

\* C24: on both alarm-setting paths an event that is created lies after the
\* current time, and a date-time literal that lies in the past creates no
\* event and is answered with the "time is in the past" message.
NoAlarmInThePast ==
    (inp.fn \in {"set_alarm_voice", "alarm"} /\ ~out.pending) =>
        /\ out.event.kind = "time" => Stamp(out.event) > Stamp(inp.now)
        /\ ( /\ inp.text \in DatedTexts
             /\ StrptimeAccepts(inp.text)
             /\ Stamp(Strptime(inp.text)) <= Stamp(inp.now) )
           => out.event = NoTime /\ out.spoken = <<PastMessage>>

-----------------------------------------------------------------------------
(* SpecMemory: the conversations table of ConversationMemory
   (conversation_memory.py).  A row is a saved turn with its session and the
   day of its timestamp.  The settings come from the configuration
   (defaults: max_conversation_history 10, conversation_retention_days 30);
   the model takes small values of both. *)

MaxSaves == 4       \* turns saved in a behaviour
MaxDays == 3        \* days the clock advances

MemorySessions == {"s1", "s2"}

Settings == [max_conversation_history : {2, 3}, conversation_retention_days : {1, 2}]

InitMemory ==
    /\ inp \in [fn : {"ConversationMemory"}, config : Settings]
    /\ out = [pending |-> TRUE, conversations |-> <<>>, lastrowid |-> 0,
              today |-> 0, history |-> <<>>, returns |-> "none"]
    /\ LoopIdle /\ AppIdle /\ GhostIdle

\* save_conversation_turn: one INSERT, or False when the database fails
save_conversation_turn(session_id, db_ok) ==
    /\ inp.fn = "ConversationMemory"
    /\ out.lastrowid < MaxSaves
    /\ out' = IF db_ok
              THEN [out EXCEPT
                      !.conversations =
                          Append(@, [id |-> out.lastrowid + 1,
                                     session_id |-> session_id,
                                     timestamp |-> out.today]),
                      !.lastrowid = @ + 1,
                      !.returns = "True"]
              ELSE [out EXCEPT !.returns = "False"]
    /\ UNCHANGED <<inp, prog, pc, loop_history, turn, turns,
                   conversation_history, tasks, running, arrived>>

SaveTurn == \E session_id \in MemorySessions, db_ok \in BOOLEAN :
                save_conversation_turn(session_id, db_ok)

\* the rows of rows that satisfy keep, in their order
RECURSIVE SelectRows(_, _, _)
SelectRows(rows, session_id, cutoff) ==
    IF rows = <<>> THEN <<>>
    ELSE IF (session_id = "any" \/ Head(rows).session_id = session_id)
            /\ Head(rows).timestamp >= cutoff
         THEN <<Head(rows)>> \o SelectRows(Tail(rows), session_id, cutoff)
         ELSE SelectRows(Tail(rows), session_id, cutoff)

\* the last n elements of s, latest first (ORDER BY timestamp DESC LIMIT n;
\* rows are inserted in the order of their timestamps)
RECURSIVE LatestFirst(_, _)
LatestFirst(s, n) ==
    IF s = <<>> \/ n = 0 THEN <<>>
    ELSE <<s[Len(s)]>> \o LatestFirst(SubSeq(s, 1, Len(s) - 1), n - 1)

\* get_conversation_history(session_id) with the default limit
get_conversation_history(session_id) ==
    /\ inp.fn = "ConversationMemory"
    /\ out' = [out EXCEPT
                 !.history = LatestFirst(SelectRows(out.conversations, session_id, 0),
                                         inp.config.max_conversation_history),
                 !.returns = "history"]
    /\ UNCHANGED <<inp, prog, pc, loop_history, turn, turns,
                   conversation_history, tasks, running, arrived>>

GetHistory == \E session_id \in MemorySessions : get_conversation_history(session_id)

\* cleanup_old_data: DELETE ... WHERE timestamp < now - retention_days
cleanup_old_data ==
    /\ inp.fn = "ConversationMemory"
    /\ out' = [out EXCEPT
                 !.conversations =
                     SelectRows(@, "any",
                                out.today - inp.config.conversation_retention_days),
                 !.returns = "deleted"]
    /\ UNCHANGED <<inp, prog, pc, loop_history, turn, turns,
                   conversation_history, tasks, running, arrived>>

\* a day passes
DayPasses ==
    /\ inp.fn = "ConversationMemory"
    /\ out.today < MaxDays
    /\ out' = [out EXCEPT !.today = @ + 1]
    /\ UNCHANGED <<inp, prog, pc, loop_history, turn, turns,
                   conversation_history, tasks, running, arrived>>

NextMemory == SaveTurn \/ GetHistory \/ cleanup_old_data \/ DayPasses

SpecMemory == InitMemory /\ [][NextMemory]_vars

\* C25: after any sequence of save_conversation_turn calls the store holds
\* at most max_conversation_history turns of each session.
TurnLogBounded ==
    inp.fn = "ConversationMemory" =>
        \A session_id \in MemorySessions :
            Len(SelectRows(out.conversations, session_id, 0))
                <= inp.config.max_conversation_history

-----------------------------------------------------------------------------
(* Follow-ups and the earlier turns of the history (SpecContext) *)

\* C26: for a history whose first entry is a search request followed by
\* other utterances, an input that the hybrid classifier leaves unknown and
\* that contains a search follow-up trigger is classified as search_google.
EarlierTurnResolved ==
    ( /\ inp.fn = "get_intent_with_context" /\ ~out.pending
      /\ Len(inp.history) >= 2
      /\ inp.history[1] = <<"search", " ", "for", " ", "python">>
      /\ out.ret.hybrid.intent = "unknown"
      /\ \E pattern \in follow_up_patterns["search_google"] :
            Contains(LowerText(inp.text), pattern) )
    => out.ret.intent = "search_google"

-----------------------------------------------------------------------------
(* Both models missing (SpecHybrid); with no spaCy doc the lexical scores
   are the pattern scores alone *)

\* C27: with the spaCy model and the transformer classifier both missing, a
\* text whose pattern score for some intent exceeds 0.3 is classified as an
\* intent, not as unknown.
PatternMatchingSurvives ==
    ( /\ inp.fn = "get_intent_hybrid" /\ ~out.pending
      /\ ~out.nlp /\ ~out.classifier
      /\ preprocess_text(inp.text) # <<>>
      /\ out.best_score > Threshold )
    => /\ out.spacy_intent # "unknown"
       /\ out.ret.intent # "unknown"

-----------------------------------------------------------------------------
(* Dictapp.py: detect_intent, fuzzy_match_app_name and openappweb, and the
   open_app branch of assistant_loop (main.py 205-208).  A query is a
   sequence of symbols: words, whitespace and web addresses. *)

open_words == <<"open", "launch", "start", "run", "execute">>
close_words == <<"close", "kill", "terminate", "exit", "stop", "quit">>

\* `word in query_lower` for one symbol of the query
HasSubstring(sym, word) == sym = word \/ (sym = "opens" /\ word = "open")

\* token.lemma_ as spaCy gives it for the words of the model
Lemma(sym) == IF sym = "opens" THEN "open" ELSE sym

IsUrl(sym) == sym = "github.com"

\* str.split()
RECURSIVE Words(_)
Words(text) ==
    IF text = <<>> THEN <<>>
    ELSE IF IsSpace(Head(text)) THEN Words(Tail(text))
    ELSE <<Head(text)>> \o Words(Tail(text))

\* lines 323-327: the last token with an open or a close lemma decides
RECURSIVE LemmaIntent(_, _)
LemmaIntent(doc, intent) ==
    IF doc = <<>> THEN intent
    ELSE LemmaIntent(Tail(doc),
                     IF Lemma(Head(doc)) \in Range(open_words) THEN "open"
                     ELSE IF Lemma(Head(doc)) \in Range(close_words) THEN "close"
                     ELSE intent)

\* lines 330-336: the nouns of the doc that are no stop words
RECURSIVE Keywords(_, _)
Keywords(doc, nouns) ==
    IF doc = <<>> THEN <<>>
    ELSE IF Head(doc) \in nouns THEN <<Head(doc)>> \o Keywords(Tail(doc), nouns)
    ELSE Keywords(Tail(doc), nouns)

\* lines 346-356: the first open word, else the first close word, that is a
\* substring of the query
KeywordIntent(text) ==
    IF \E i \in DOMAIN text, w \in Range(open_words) : HasSubstring(text[i], w)
    THEN "open"
    ELSE IF \E i \in DOMAIN text, w \in Range(close_words) : HasSubstring(text[i], w)
    THEN "close"
    ELSE "None"

\* lines 361-365: the index of the first word that is an intent word, or 0
RECURSIVE IntentWordIdx(_, _)
IntentWordIdx(words, i) ==
    IF i > Len(words) THEN 0
    ELSE IF words[i] \in Range(open_words) \cup Range(close_words) THEN i
    ELSE IntentWordIdx(words, i + 1)

\* lines 359-368: everything after the intent word
AfterIntentWord(intent, words) ==
    IF intent # "None" /\ IntentWordIdx(words, 1) >= 1
       /\ IntentWordIdx(words, 1) < Len(words)
    THEN SubSeq(words, IntentWordIdx(words, 1) + 1, Len(words))
    ELSE <<>>

\* the dictionaries and difflib.get_close_matches on a one-word name
DictMatch(name) ==
    CASE name = "chrome" -> "chrome"
      [] name = "word"   -> "winword"
      [] name \in {"open", "opens"} -> "opera"
      [] OTHER           -> "None"

\* fuzzy_match_app_name: on_path is whether shutil.which or the search of
\* the system paths finds the name; the names that arise have one word
fuzzy_match_app_name(app_name, on_path) ==
    IF app_name = <<>> THEN "None"
    ELSE IF DictMatch(app_name[1]) # "None" THEN DictMatch(app_name[1])
    ELSE IF on_path THEN app_name[1]
    ELSE "None"

Detected(intent, app_name, entity_type) ==
    [intent |-> intent, app_name |-> app_name, entity_type |-> entity_type]

\* lines 370-382
Resolve(query, intent, app_name, on_path) ==
    IF \E i \in DOMAIN query : IsUrl(query[i])
    THEN Detected(intent, "github.com", "web")
    ELSE IF fuzzy_match_app_name(app_name, on_path) # "None"
    THEN Detected(intent, fuzzy_match_app_name(app_name, on_path), "app")
    ELSE Detected(intent, "None", "None")

\* detect_intent; env says whether spaCy is loaded, which words it tags as
\* nouns, and what the system paths hold
detect_intent(query, env) ==
    IF env.nlp
    THEN Resolve(query, LemmaIntent(Words(LowerText(query)), "None"),
                 Keywords(Words(LowerText(query)), env.nouns), env.on_path)
    ELSE Resolve(query, KeywordIntent(LowerText(query)),
                 AfterIntentWord(KeywordIntent(LowerText(query)),
                                 Words(LowerText(query))),
                 env.on_path)

\* how the launch goes: shutil.which finds the name, or name.exe, or one of
\* the two start commands works, or nothing works, or an exception is raised
LaunchOutcomes == {"which", "exe", "start", "start_quoted", "nothing", "raises"}

Said(msg, app) == [msg |-> msg, app |-> app]

Opened(returns, opened, spoken) ==
    [pending |-> FALSE, returns |-> returns, opened |-> opened, spoken |-> spoken]

\* lines 395-447
Launch(d, launch) ==
    IF launch = "raises"
    THEN Opened(FALSE, "None", <<Said("Launching, sir", "None"),
                                 Said("Sorry, there was an error opening", d.app_name)>>)
    ELSE IF d.entity_type = "web"
    THEN Opened(TRUE, d.app_name, <<Said("Launching, sir", "None"),
                                    Said("Opening in your browser", d.app_name)>>)
    ELSE IF launch = "nothing"
    THEN Opened(FALSE, "None", <<Said("Launching, sir", "None"),
                                 Said("Sorry, I couldn't find or open", d.app_name)>>)
    ELSE Opened(TRUE, d.app_name, <<Said("Launching, sir", "None"),
                                    Said("Opening", d.app_name)>>)

OpenDetected(d, launch) ==
    IF d.intent # "open" \/ d.app_name = "None"
    THEN Opened(FALSE, "None",
                <<Said("Sorry, I couldn't figure out what to open.", "None")>>)
    ELSE Launch(d, launch)

openappweb(query, env) ==
    IF query = <<>>
    THEN Opened(FALSE, "None", <<Said("No command provided.", "None")>>)
    ELSE OpenDetected(detect_intent(query, env), env.launch)

\* the open_app branch: handle_open_app on the first app_name entity, or on
\* the query when there is none
open_app_branch(query, entities, env) ==
    openappweb(EntityOrQuery(entities, "app_name", query), env)

OpenQueries ==
    { <<"open", " ", "chrome">>, <<"Open", " ", "word">>, <<"open", " ", "foo">>,
      <<"opens", " ", "chrome">>, <<"open">>, <<"open", " ", "github.com">>,
      <<"chrome", " ", "open">> }

\* the app_name list of extract_entities: empty, or the words of the query
\* that spaCy labels PERSON
AppNames(query) ==
    { <<>> } \cup { << <<w>> >> : w \in Range(Words(query)) \ {"open", "Open", "opens"} }

OpenEnvs ==
    [nlp : BOOLEAN, nouns : { {}, {"chrome", "word", "foo"} }, on_path : BOOLEAN,
     launch : LaunchOutcomes]

InitOpenApp ==
    /\ inp \in { i \in [fn : {"open_app"}, query : OpenQueries,
                        app_name : UNION {AppNames(q) : q \in OpenQueries},
                        env : OpenEnvs] :
                 i.app_name \in AppNames(i.query) }
    /\ out = [pending |-> TRUE]
    /\ LoopIdle /\ AppIdle /\ GhostIdle

ApplyOpenApp ==
    /\ inp.fn = "open_app" /\ out.pending
    /\ out' = open_app_branch(inp.query, [app_name |-> inp.app_name], inp.env)
    /\ UNCHANGED <<inp, prog, pc, loop_history, turn, turns,
                   conversation_history, tasks, running, arrived>>

NextOpenApp == ApplyOpenApp

SpecOpenApp == InitOpenApp /\ [][NextOpenApp]_vars

\* C28: for an open_app turn the handler opens the same application whether
\* it is handed the full utterance or the first value of the app_name list,
\* and when an application is opened the confirmation names it.
SameAppEitherWay ==
    (inp.fn = "open_app" /\ ~out.pending) =>
        /\ out.opened = openappweb(inp.query, inp.env).opened
        /\ out.opened # "None" =>
              out.spoken[Len(out.spoken)].app = out.opened

-----------------------------------------------------------------------------
(* SpecRepeat: a turn with the "repeat" intent after zero, one or two
   earlier turns, in assistant_loop (main.py 140-143, 249-254) and in
   process_intent (app.py 275-276) *)

NothingToRepeat == "I don't have anything to repeat yet."

RepeatQueries == { <<"hello">>, <<"repeat", " ", "that">> }

\* what the assistant answered in an earlier turn
Responses == { <<"I'm Ashley">>, <<"greeting", "how can I help you today?">> }

EarlierTurns ==
    UNION { [1..n -> [query : RepeatQueries, response : Responses]] : n \in 0..2 }

\* conversation_history after the earlier turns: their queries
RECURSIVE HistoryOf(_)
HistoryOf(previous) ==
    IF previous = <<>> THEN <<>>
    ELSE AddToList(HistoryOf(SubSeq(previous, 1, Len(previous) - 1)),
                   previous[Len(previous)].query)

InitRepeat ==
    /\ inp \in [fn : {"repeat"}, program : {"main", "app"},
                previous : EarlierTurns, query : RepeatQueries]
    /\ out = [pending |-> TRUE]
    /\ LoopIdle /\ AppIdle /\ GhostIdle

\* assistant_loop: the query is appended to the history, then the repeat
\* branch speaks "I said: " followed by out.content
RepeatInLoop ==
    /\ inp.fn = "repeat" /\ inp.program = "main" /\ out.pending
    /\ \E env \in Envs :
          out' = [pending |-> FALSE,
                  content |-> Dispatch("repeat", inp.query, NoEntities,
                                       AddToList(HistoryOf(inp.previous), inp.query),
                                       env).spoken[1][2]]
    /\ UNCHANGED <<inp, prog, pc, loop_history, turn, turns,
                   conversation_history, tasks, running, arrived>>

\* process_intent: out.content is the response
RepeatInApp ==
    /\ inp.fn = "repeat" /\ inp.program = "app" /\ out.pending
    /\ out' = [pending |-> FALSE,
               content |-> process_intent("repeat", inp.query, NoEntities).response]
    /\ UNCHANGED <<inp, prog, pc, loop_history, turn, turns,
                   conversation_history, tasks, running, arrived>>

NextRepeat == RepeatInLoop \/ RepeatInApp

SpecRepeat == InitRepeat /\ [][NextRepeat]_vars

\* C29: on a "repeat" intent the assistant speaks again the response of the
\* previous turn, and it says "I don't have anything to repeat yet." exactly
\* when there is no previous turn.
RepeatsPreviousResponse ==
    (inp.fn = "repeat" /\ ~out.pending) =>
        IF inp.previous = <<>>
        THEN out.content = <<NothingToRepeat>>
        ELSE out.content = inp.previous[Len(inp.previous)].response

-----------------------------------------------------------------------------
(* SpecWake: WakeWordDetector.start_listening, stop_listening and the
   threads running _listening_loop (wake_word_detector.py 89-147).  One
   caller issues the calls; a thread is at "calibrate" (lines 113-115), at
   "test" (the while test of line 117), in "body" (lines 118-144) or
   "ended". *)

MaxThreads == 3     \* listening threads created in a behaviour

InitWake ==
    /\ inp = [fn |-> "WakeWordDetector"]
    /\ out = [pending |-> TRUE, is_listening |-> FALSE, listening_thread |-> 0,
              threads |-> <<>>, caller |-> "idle"]
    /\ LoopIdle /\ AppIdle /\ GhostIdle

is_alive(t) == t # 0 /\ out.threads[t] # "ended"

\* start_listening: returns at once when is_listening is set; else sets it
\* and starts a new thread
start_listening ==
    /\ inp.fn = "WakeWordDetector" /\ out.caller = "idle"
    /\ Len(out.threads) < MaxThreads
    /\ out' = IF out.is_listening THEN out
              ELSE [out EXCEPT !.is_listening = TRUE,
                               !.threads = Append(@, "calibrate"),
                               !.listening_thread = Len(out.threads) + 1]
    /\ UNCHANGED <<inp, prog, pc, loop_history, turn, turns,
                   conversation_history, tasks, running, arrived>>

\* stop_listening up to the join: the flag is cleared, and the caller waits
\* for the thread if it is alive
stop_listening ==
    /\ inp.fn = "WakeWordDetector" /\ out.caller = "idle"
    /\ out' = [out EXCEPT !.is_listening = FALSE,
                          !.caller = IF is_alive(out.listening_thread)
                                     THEN "joining" ELSE "idle"]
    /\ UNCHANGED <<inp, prog, pc, loop_history, turn, turns,
                   conversation_history, tasks, running, arrived>>

\* join(timeout=2.0) returns: the thread has ended, or two seconds have
\* passed while it is still inside the loop body (a listen of up to 1 + 3
\* seconds followed by the recognition request)
JoinReturns ==
    /\ inp.fn = "WakeWordDetector" /\ out.caller = "joining"
    /\ out.threads[out.listening_thread] \in {"ended", "body"}
    /\ out' = [out EXCEPT !.caller = "idle"]
    /\ UNCHANGED <<inp, prog, pc, loop_history, turn, turns,
                   conversation_history, tasks, running, arrived>>

\* lines 113-115: the calibration ends, or raises into the outer except
Calibrate(t) ==
    /\ out.threads[t] = "calibrate"
    /\ \E ok \in BOOLEAN :
          out' = [out EXCEPT !.threads[t] = IF ok THEN "test" ELSE "ended"]
    /\ UNCHANGED <<inp, prog, pc, loop_history, turn, turns,
                   conversation_history, tasks, running, arrived>>

\* line 117: while self.is_listening
TestFlag(t) ==
    /\ out.threads[t] = "test"
    /\ out' = [out EXCEPT !.threads[t] = IF out.is_listening THEN "body" ELSE "ended"]
    /\ UNCHANGED <<inp, prog, pc, loop_history, turn, turns,
                   conversation_history, tasks, running, arrived>>

\* lines 118-144: one pass of the body; every exception is caught inside
LoopBody(t) ==
    /\ out.threads[t] = "body"
    /\ out' = [out EXCEPT !.threads[t] = "test"]
    /\ UNCHANGED <<inp, prog, pc, loop_history, turn, turns,
                   conversation_history, tasks, running, arrived>>

_listening_loop ==
    /\ inp.fn = "WakeWordDetector"
    /\ \E t \in DOMAIN out.threads : Calibrate(t) \/ TestFlag(t) \/ LoopBody(t)

NextWake == start_listening \/ stop_listening \/ JoinReturns \/ _listening_loop

SpecWake == InitWake /\ [][NextWake]_vars

\* C30: at most one listening thread is running its loop at any time.
OneListeningThread ==
    inp.fn = "WakeWordDetector" =>
        Cardinality({t \in DOMAIN out.threads : out.threads[t] \in {"test", "body"}}) <= 1

====
